---- MODULE Spec2Model ----
(***************************************************************************)
(* CatBox: the supervised execution engine (src/src/catbox.rs) and the     *)
(* syscall filter (src/src/syscall.rs).                                    *)
(*                                                                         *)
(* Spec        one invocation of run(): the parent's waitpid/ptrace loop,  *)
(*             the forked child and the kernel's ptrace semantics.         *)
(* SpecPrelude run() for every caller, account and jail setting.           *)
(* SpecCgroup  run() for every cgroup hierarchy (src/src/cgroup.rs).       *)
(* SpecFilter  the public SyscallFilter API driven by an arbitrary caller. *)
(* SpecPreset  a filter made of presets, asked about every syscall.        *)
(* SpecParse   SyscallFilter::parse_presets on its own.                    *)
(***************************************************************************)
EXTENDS Integers, Sequences, FiniteSets, TLC

(***************************************************************************)
(* Bounds                                                                  *)
(***************************************************************************)
\* largest magnitude of the count handed to SyscallFilter::allow
MaxQuota == 2
\* how far below -MaxQuota filter calls may count an Allow entry down
MaxCalls == 3
\* most space-separated pieces in the strings handed to parse_presets
MaxWords == 3

(***************************************************************************)
(* Option<T>                                                               *)
(***************************************************************************)
None == [some |-> FALSE]
Some(x) == [some |-> TRUE, val |-> x]

(***************************************************************************)
(* Signals (nix::sys::signal::Signal), grouped as run() matches them       *)
(***************************************************************************)
TimeoutSignals == {"SIGALRM", "SIGVTALRM", "SIGXCPU"}
FatalSignals == {"SIGBUS", "SIGFPE", "SIGILL", "SIGSEGV", "SIGSYS", "SIGXFSZ", "SIGABRT"}
UnreachableSignals == {"SIGCONT", "SIGHUP", "SIGINT"}
UnhandledSignals == {"SIGUSR1", "SIGTERM", "SIGPIPE", "SIGCHLD"}
Signal ==
  TimeoutSignals \cup FatalSignals \cup UnreachableSignals \cup UnhandledSignals
    \cup {"SIGTRAP", "SIGKILL"}
\* signals whose default disposition does not terminate the process (signal(7))
DefaultIgnored == {"SIGCHLD", "SIGCONT"}

(***************************************************************************)
(* Syscall numbers, by name.  "none" stands for the orig_rax of a trap     *)
(* that is not a syscall stop (orig_rax = -1), which no map contains.      *)
(***************************************************************************)
NetSyscalls ==
  {"socketpair", "setsockopt", "getsockopt", "getsockname", "getpeername",
   "bind", "listen", "accept", "accept4", "shutdown"}
ProcessAllowed == {"execve", "execveat"}
ProcessForbidden == {"fork", "vfork", "clone", "clone3"}
UnlistedSyscalls == {"socket", "connect", "read", "write", "none"}
SyscallId == NetSyscalls \cup ProcessAllowed \cup ProcessForbidden \cup UnlistedSyscalls

\* user_regs_struct, reduced to the two registers a filter can look at here
Regs == [orig_rax : SyscallId, rdi : {0, 1}]

(***************************************************************************)
(* SyscallPerm and SyscallFilter.map                                       *)
(***************************************************************************)
\* a key that is not in the HashMap
Absent == [t |-> "Absent"]
Forbid == [t |-> "Forbid"]
Allow(n) == [t |-> "Allow", count |-> n]
FilterFn(f) == [t |-> "FilterFn", func |-> f]

\* the predicates a caller may register with add_fn
FilterFuncs == {"fn_true", "fn_false", "fn_rdi_is_zero"}
CallFn(f, regs) ==
  CASE f = "fn_true" -> TRUE
    [] f = "fn_false" -> FALSE
    [] f = "fn_rdi_is_zero" -> regs.rdi = 0

\* i32 arithmetic of `*count -= 1` (release build: two's complement wrap)
I32Min == -2147483647 - 1
I32Max == 2147483647
DecI32(n) == IF n = I32Min THEN I32Max ELSE n - 1

SyscallFilter_new == [id \in SyscallId |-> Absent]

forbid(map, id) == [map EXCEPT ![id] = Forbid]

allow(map, id, count) == [map EXCEPT ![id] = Allow(count)]

add_fn(map, id, func) == [map EXCEPT ![id] = FilterFn(func)]

RestrictedSyscall == {"Net", "Process", "Thread"}

\* variant: the Net arm without its last line, `.forbid(SYS_shutdown)`
EnableNetForbids_NoShutdown == NetSyscalls \ {"shutdown"}

\* the ids the Net arm forbids (socket and connect are commented out)
EnableNetForbids == NetSyscalls

\* variant: the Process arm forbids clone but not clone3
enable_NoClone3(map, feature) ==
  CASE feature = "Net" ->
         [id \in SyscallId |-> IF id \in EnableNetForbids THEN Forbid ELSE map[id]]
    [] feature = "Process" ->
         [id \in SyscallId |->
            IF id \in ProcessAllowed THEN Allow(1)
            ELSE IF id \in ProcessForbidden \ {"clone3"} THEN Forbid
            ELSE map[id]]
    [] feature = "Thread" -> map

enable(map, feature) ==
  CASE feature = "Net" ->
         [id \in SyscallId |-> IF id \in EnableNetForbids THEN Forbid ELSE map[id]]
    [] feature = "Process" ->
         [id \in SyscallId |->
            IF id \in ProcessAllowed THEN Allow(1)
            ELSE IF id \in ProcessForbidden THEN Forbid
            ELSE map[id]]
    [] feature = "Thread" -> map

SyscallFilter_default == enable(enable(SyscallFilter_new, "Net"), "Process")

\* the decision of one filter call on the entry it finds
PermAllows(perm, regs) ==
  CASE perm.t = "Absent" -> TRUE
    [] perm.t = "Forbid" -> FALSE
    [] perm.t = "FilterFn" -> CallFn(perm.func, regs)
    [] perm.t = "Allow" -> perm.count # 0

\* variant: an allowed call does not use up quota
PermAfter_KeepCount(perm) == perm

\* the entry a filter call leaves behind
PermAfter(perm) ==
  IF perm.t = "Allow" /\ perm.count # 0 THEN Allow(DecI32(perm.count)) ELSE perm

\* SyscallFilter::filter: the returned bool and the map afterwards
SyscallFilter_filter(map, regs) ==
  [ret |-> PermAllows(map[regs.orig_rax], regs),
   map |-> [map EXCEPT ![regs.orig_rax] = PermAfter(map[regs.orig_rax])]]

(***************************************************************************)
(* SyscallFilter::parse_presets                                            *)
(*                                                                         *)
(* A String of the argument is written as the sequence of the pieces that  *)
(* stand between its single spaces, so "net  all" is <<"net", "", "all">>. *)
(***************************************************************************)
\* the pieces the strings are made of: the five tokens (one with a capital,
\* one behind a tab), a comma-joined pair, a word that is no token, and
\* the empty piece two adjacent spaces leave
Words == {"none", "net", "Network", "process", "\tall", "net,process", "thread", ""}

\* `str.split(" ")`
Split(str) == str

\* `p.trim()`
Trim(p) == IF p = "\tall" THEN "all" ELSE p

\* `.to_ascii_lowercase()`
ToAsciiLowercase(p) == IF p = "Network" THEN "network" ELSE p

RECURSIVE FlatMapSplit(_)
\* `.into_iter().flat_map(|str| str.split(" ") ...)`
FlatMapSplit(strs) ==
  IF strs = <<>> THEN <<>> ELSE Split(Head(strs)) \o FlatMapSplit(Tail(strs))

NonEmpty(p) == p # ""

\* the Vec<String> the `for` loop runs over
PresetTokens(strs) ==
  LET pieces == FlatMapSplit(strs)
      cleaned == [i \in 1..Len(pieces) |-> ToAsciiLowercase(Trim(pieces[i]))]
  IN SelectSeq(cleaned, NonEmpty)

\* what parse_presets returns
NotParsed == [kind |-> "none", error |-> "none", filter |-> None]
ParseOk(filterOpt) == [kind |-> "Ok", error |-> "none", filter |-> filterOpt]
ParseErr(type) == [kind |-> "Err", error |-> type, filter |-> None]

\* variant: the "all" arm enables Net only
ParseArm_AllIsNet(filter, preset) ==
  CASE preset \in {"net", "network"} -> enable(filter, "Net")
    [] preset = "process" -> enable(filter, "Process")
    [] preset = "all" -> enable(filter, "Net")

\* the filter after one of the arms that enable presets
ParseArm(filter, preset) ==
  CASE preset \in {"net", "network"} -> enable(filter, "Net")
    [] preset = "process" -> enable(filter, "Process")
    [] preset = "all" -> enable(enable(filter, "Net"), "Process")

RECURSIVE ParseLoop(_, _)
\* `for preset in presets { match preset.as_str() { ... } }`, `Ok(Some(filter))`
ParseLoop(tokens, filter) ==
  IF tokens = <<>> THEN ParseOk(Some(filter))
  ELSE LET preset == Head(tokens)
       IN CASE preset = "none" -> ParseOk(None)
            [] preset \in {"net", "network", "process", "all"} ->
                 ParseLoop(Tail(tokens), ParseArm(filter, preset))
            [] OTHER -> ParseErr("Cli")

parse_presets(strs) == ParseLoop(PresetTokens(strs), SyscallFilter_new)

RECURSIVE PresetLists(_)
\* the Vec<String> arguments whose strings have n pieces in all
PresetLists(n) ==
  IF n = 0 THEN {<<>>}
  ELSE UNION {{Append(front, str) : front \in PresetLists(n - k), str \in [1..k -> Words]} :
                k \in 1..n}

(***************************************************************************)
(* run(): the pieces of the supervision loop                               *)
(***************************************************************************)
ExitCodes == {0, 1, 42}

\* WaitStatus as waitpid(child, None) can report it for this child
NoStatus == [kind |-> "none", code |-> 0, signal |-> "none"]
Exited(code) == [kind |-> "exited", code |-> code, signal |-> "none"]
Signaled(sig) == [kind |-> "signaled", code |-> 0, signal |-> sig]

\* a ptrace stop the kernel holds the tracee in: the stop signal, the
\* registers getregs would return, and whether the program has a handler
\* (or SIG_IGN) installed for the signal
NoStop == [signal |-> "none", regs |-> [orig_rax |-> "none", rdi |-> 0], caught |-> FALSE]
Stop(sig, regs, caught) == [signal |-> sig, regs |-> regs, caught |-> caught]
NoRegs == [orig_rax |-> "none", rdi |-> 0]

\* ptrace requests the parent issues
NoRequest == [op |-> "none", signal |-> "none"]
Cont(sig) == [op |-> "cont", signal |-> sig]
Syscall == [op |-> "syscall", signal |-> "none"]
Kill == [op |-> "kill", signal |-> "none"]

\* what run() has returned to its caller
NoReturn ==
  [kind |-> "none", error |-> "none", message |-> <<>>, status |-> None, signal |-> None]
Ok(status, signal) ==
  [kind |-> "Ok", error |-> "none", message |-> <<>>, status |-> status, signal |-> signal]
\* a CatBoxError of the given variant carrying the given message
ErrMsg(type, message) ==
  [kind |-> "Err", error |-> type, message |-> message, status |-> None, signal |-> None]
\* a CatBoxError whose payload (errno, library text) is not followed here
Err(type) == ErrMsg(type, <<>>)
Panic(macro) ==
  [kind |-> "panic", error |-> macro, message |-> <<>>, status |-> None, signal |-> None]

\* variant: the Exited arm forgets the remembered stop signal
BreakExited_DropSignal(code, last) == [status |-> Some(code), signal |-> None]

\* `break (Some(status), last_signal)`
BreakExited(code, last) == [status |-> Some(code), signal |-> last]

\* variant: the Signaled arm prefers the remembered stop signal
BreakSignaled_KeepLast(sig, last) ==
  [status |-> None, signal |-> IF last.some THEN last ELSE Some(sig)]

\* `break (None, Some(signal))`
BreakSignaled(sig, last) == [status |-> None, signal |-> Some(sig)]

\* variant: only the first stop signal is remembered
RememberStop_First(last, sig) == IF last.some THEN last ELSE Some(sig)

\* `last_signal = Some(signal)` in the timeout arm and in the fatal arm
RememberStop(last, sig) == Some(sig)

\* variant: the stop signal is dropped, `ptrace::cont(pid, None)`
ForwardStop_Drop(sig) == [op |-> "cont", signal |-> "none"]

\* the request of the timeout arm and of the fatal arm: `ptrace::cont(pid, signal)`
ForwardStop(sig) == Cont(sig)

\* variant: a failed getregs counts as a denied call
TrapVerdict_DenyOnError(filterOpt, getregs_ok, regs) ==
  IF filterOpt.some
    THEN getregs_ok /\ SyscallFilter_filter(filterOpt.val, regs).ret
    ELSE TRUE

\* the SIGTRAP arm: the filter's verdict (TRUE when there is nothing to ask),
\* and the filter afterwards
TrapVerdict(filterOpt, getregs_ok, regs) ==
  IF getregs_ok /\ filterOpt.some
    THEN SyscallFilter_filter(filterOpt.val, regs).ret
    ELSE TRUE

TrapFilter(filterOpt, getregs_ok, regs) ==
  IF getregs_ok /\ filterOpt.some
    THEN Some(SyscallFilter_filter(filterOpt.val, regs).map)
    ELSE filterOpt

\* variant: a denied call is resumed like an allowed one
TrapRequest_Resume(verdict) == [op |-> "syscall", signal |-> "none"]

\* `ptrace::syscall(pid, None)` for an allowed call, `ptrace::kill(pid)` otherwise
TrapRequest(verdict) == IF verdict THEN Syscall ELSE Kill

\* variant: the loop works on the filter of the option itself
AfterClone_Alias(stored, copy) == copy

\* `let mut filter = option.ptrace().clone()`: what the option holds once the
\* copy has changed
AfterClone(stored, copy) == stored

\* A text is written as the sequence of its parts, so that a prefix can be
\* told from what follows it.
\* `format!("Execvpe fails: {} (Errno: {:?})", &e.desc(), &e)`
ExecvpePrefix == "Execvpe fails: "
ExecvpeMessage == <<ExecvpePrefix, "No such file or directory (Errno: ENOENT)">>

\* `message.strip_prefix("Execvpe fails: ")`
StripPrefix(message, prefix) ==
  IF message # <<>> /\ Head(message) = prefix THEN Some(Tail(message)) ELSE None

\* variant: the message is handed on as it was read
ExecError_Whole(message) == ErrMsg("Exec", message)

\* the error run() makes of a message it read from the pipe
ExecError(message) ==
  LET exec_error == StripPrefix(message, ExecvpePrefix)
  IN IF exec_error.some THEN ErrMsg("Exec", exec_error.val) ELSE ErrMsg("Exec", message)

\* pipe2(O_CLOEXEC | O_NONBLOCK)
PipeFlags == {"O_CLOEXEC", "O_NONBLOCK"}

\* CatBoxReadPipe::read on a pipe that holds bytes and whose write end is
\* open in the processes writers: the text, the error of an empty pipe that
\* still has a writer (EAGAIN), or a read that waits
CatBoxReadPipe_read(bytes, writers) ==
  IF bytes # <<>> THEN [kind |-> "Ok", text |-> bytes]
  ELSE IF writers = {} THEN [kind |-> "Ok", text |-> <<>>]
  ELSE IF "O_NONBLOCK" \in PipeFlags THEN [kind |-> "Err", text |-> <<>>]
  ELSE [kind |-> "blocks", text |-> <<>>]

\* variant: any message that could be read, an empty one too, is an error
AfterRead_EmptyIsError(read, brk) ==
  IF read.kind = "Ok" THEN ExecError(read.text) ELSE Ok(brk.status, brk.signal)

\* what run() returns after the loop: `if let Ok(message) = pipe.read() { if
\* message.len() > 0 { .. return Err(..) } }`, else the Result
AfterRead(read, brk) ==
  IF read.kind = "Ok" /\ Len(read.text) > 0
    THEN ExecError(read.text)
    ELSE Ok(brk.status, brk.signal)

(***************************************************************************)
(* run(): the child prelude                                                *)
(***************************************************************************)
\* variant: setuid is called before setgid
PreludeOrder_UidFirst ==
  <<"prctl", "pipe_write", "redirect_io", "change_root", "set_alarm",
    "set_resource_limit", "setuid", "setgid", "traceme", "execvpe">>

\* the statements of the ForkResult::Child arm, in program order
PreludeOrder ==
  <<"prctl", "pipe_write", "redirect_io", "change_root", "set_alarm",
    "set_resource_limit", "setgid", "setuid", "traceme", "execvpe">>

\* the statement that follows statement s
StepAfter(s) ==
  LET i == CHOOSE k \in 1..Len(PreludeOrder) : PreludeOrder[k] = s
  IN IF i < Len(PreludeOrder) THEN PreludeOrder[i + 1] ELSE "left"

\* the resources of set_resource_limit, in the order of its setrlimit calls
\* Seconds are written <<hi, lo>> for hi * 2^30 + lo, 0 <= lo < 2^30, so that
\* the values around the largest c_uint can be written
Secs(hi, lo) == <<hi, lo>>
Succ(n) == IF n[2] = 1073741823 THEN Secs(n[1] + 1, 0) ELSE Secs(n[1], n[2] + 1)
Leq(a, b) == a[1] < b[1] \/ (a[1] = b[1] /\ a[2] <= b[2])

\* the largest c_uint, 2^32 - 1
CUintMax == Secs(3, 1073741823)

\* option.time_limit(), in milliseconds: secs * 1000 + millis
TimeLimit(secs, millis) == [secs |-> secs, millis |-> millis]

\* `(option.time_limit() as f64 / 1000.0).ceil()`
CeilSeconds(time_limit) ==
  IF time_limit.millis = 0 THEN time_limit.secs ELSE Succ(time_limit.secs)

\* `as c_uint` on a float: values above the largest c_uint become the largest
AsCUint(n) == IF Leq(n, CUintMax) THEN n ELSE CUintMax

\* `alarm::set(time_limit + 1)` on a c_uint: Some(seconds) the alarm is set
\* to, or None for a panic.  On overflow the addition panics (overflow checks
\* on) or wraps to 0 (overflow checks off), and alarm::set panics on 0.
AlarmSet(time_limit) ==
  LET secs == AsCUint(CeilSeconds(time_limit))
  IN IF secs = CUintMax THEN None ELSE Some(Succ(secs))

\* set_resource_limit: the soft and hard RLIMIT_CPU, `time_limit + 1` on u64
CpuRlimit(time_limit) ==
  [soft |-> Succ(CeilSeconds(time_limit)), hard |-> Succ(CeilSeconds(time_limit))]

Rlimits == <<"RLIMIT_CPU", "RLIMIT_AS", "RLIMIT_STACK", "RLIMIT_FSIZE">>

\* user and group ids: the superuser and the account programs are run as
Ids == {"root", "judge"}

\* setgid(gid) / setuid(uid) succeed for a process with this euid and this
\* current id (setuid(2): the superuser, or a change to the id already held)
MaySetId(euid, current, id) == euid = "root" \/ id = current

\* exit status of a Rust process that panicked
PanicExitCode == 101

(***************************************************************************)
(* The jail: change_root in the child, CatBoxOption::close in the caller   *)
(***************************************************************************)
\* A path is the sequence of its components, "/" first when it is absolute.
IsAbsolute(path) == path # <<>> /\ Head(path) = "/"

\* new_root.join(relative)
Join(base, relative) == base \o relative

\* path lies at or below base
Under(path, base) == Len(path) >= Len(base) /\ SubSeq(path, 1, Len(base)) = base

\* MountPoint
MountPoint(write, dst) == [write |-> write, dst |-> dst]
read_only(mount_point) == ~mount_point.write

\* the temporary directory CatBoxOptionBuilder::chroot makes
NewRoot == <<"/", "tmp", "catbox">>

\* the call of change_root that fails in an environment, if one does
JailFaults ==
  {"none", "bind_root", "remount_root", "create_dir_all", "mount", "remount_ro",
   "chroot", "chdir"}

\* the mounts of the host and the directories made under the new root
NoMounts == [mtab |-> <<>>, made |-> {}]

\* mount(src, target, MS_BIND | MS_REC): one more entry of the mount table
Mounted(host, target) ==
  [host EXCEPT !.mtab = Append(@, target)]

\* umount2(point, MNT_FORCE | MNT_DETACH) on a mount point: the mount and
\* the mounts below it leave the mount table
Detached(host, point) ==
  [host EXCEPT !.mtab = SelectSeq(@, LAMBDA t : ~Under(t, point))]

IsMountPoint(host, point) == \E i \in 1..Len(host.mtab) : host.mtab[i] = point

\* variant: every spec is mounted, whatever its dst
SkipsMount_Never(mount_point, fs) == FALSE

\* the two `continue` of the loop of change_root: dst is not absolute, or
\* dst is not a directory
SkipsMount(mount_point, fs) ==
  ~IsAbsolute(mount_point.dst) \/ mount_point.dst \notin fs.dirs

\* the `for mount_point in option.mounts()` loop of change_root
RECURSIVE MountLoop(_, _, _, _)
MountLoop(mounts, new_root, fs, host) ==
  IF mounts = <<>> THEN [ok |-> TRUE, host |-> host]
  ELSE LET mount_point == Head(mounts)
           target == Join(new_root, StripPrefix(mount_point.dst, "/").val)
           made == [host EXCEPT !.made = @ \cup {target}]
       IN IF SkipsMount(mount_point, fs)
            THEN MountLoop(Tail(mounts), new_root, fs, host)
          ELSE IF fs.jail_fault = "create_dir_all"
            THEN [ok |-> FALSE, host |-> host]
          ELSE IF fs.jail_fault = "mount"
            THEN [ok |-> FALSE, host |-> made]
          ELSE IF read_only(mount_point) /\ fs.jail_fault = "remount_ro"
            THEN [ok |-> FALSE, host |-> Mounted(made, target)]
          ELSE MountLoop(Tail(mounts), new_root, fs, Mounted(made, target))

\* what change_root leaves behind: Ok or Err, the host's mounts, whether the
\* root of the process was changed and where its working directory is
Jail(ok, host, jailed, cwd) == [ok |-> ok, host |-> host, jailed |-> jailed, cwd |-> cwd]

\* change_root(new_root, &option) in a process that may mount or may not
change_root(new_root, mounts, fs, privileged, host) ==
  IF ~privileged \/ fs.jail_fault = "bind_root"
    THEN Jail(FALSE, host, FALSE, "outside")
  ELSE IF fs.jail_fault = "remount_root"
    THEN Jail(FALSE, Mounted(host, new_root), FALSE, "outside")
  ELSE LET loop_end == MountLoop(mounts, new_root, fs, Mounted(host, new_root))
       IN IF ~loop_end.ok
            THEN Jail(FALSE, loop_end.host, FALSE, "outside")
          ELSE IF fs.jail_fault = "chroot"
            THEN Jail(FALSE, loop_end.host, FALSE, "outside")
          ELSE IF fs.jail_fault = "chdir"
            THEN Jail(FALSE, loop_end.host, TRUE, "outside")
          ELSE Jail(TRUE, loop_end.host, TRUE, IF fs.cwd_exists THEN "cwd" ELSE "/")

\* the `for mount_point in &self.mounts` loop of close: the host's mounts
\* afterwards, and has_mount
RECURSIVE UmountLoop(_, _, _, _, _)
UmountLoop(mounts, new_root, fs, host, has_mount) ==
  IF mounts = <<>> THEN [host |-> host, has_mount |-> has_mount]
  ELSE LET target == Join(new_root, StripPrefix(Head(mounts).dst, "/").val)
       IN IF target \notin host.made
            THEN UmountLoop(Tail(mounts), new_root, fs, host, has_mount)
          ELSE IF fs.umount_fault \/ ~IsMountPoint(host, target)
            THEN UmountLoop(Tail(mounts), new_root, fs, host, has_mount)
          ELSE UmountLoop(Tail(mounts), new_root, fs, Detached(host, target), TRUE)

\* CatBoxOption::close (debug is false): the host's mounts afterwards
CatBoxOption_close(chroot, new_root, mounts, fs, host) ==
  IF ~chroot THEN host
  ELSE LET loop_end == UmountLoop(mounts, new_root, fs, host, FALSE)
       IN IF loop_end.has_mount /\ IsMountPoint(loop_end.host, new_root)
            THEN Detached(loop_end.host, new_root)
            ELSE loop_end.host

(***************************************************************************)
(* The environment of the program: CatBoxBuilder, get_env                  *)
(***************************************************************************)
\* env::var(key) in a process whose environment is vars
EnvVar(vars, key) == IF key \in DOMAIN vars THEN vars[key] ELSE None

\* `.unwrap_or("".to_string())`
UnwrapOrEmpty(opt) == IF opt.some THEN opt.val ELSE ""

\* variant: the program inherits every variable the parent has set
DefaultEnv_Inherit(vars) ==
  LET Pairs[names \in SUBSET DOMAIN vars] ==
        IF names = {} THEN <<>>
        ELSE LET n == CHOOSE x \in names : TRUE
             IN IF vars[n].some THEN <<<<n, vars[n].val>>>> \o Pairs[names \ {n}]
                                ELSE Pairs[names \ {n}]
  IN <<<<"PATH", UnwrapOrEmpty(EnvVar(vars, "PATH"))>>>> \o Pairs[DOMAIN vars \ {"PATH"}]

\* CatBoxOption::default: env
DefaultEnv(vars) == <<<<"PATH", UnwrapOrEmpty(EnvVar(vars, "PATH"))>>>>

\* parse_env on a text given as its pieces between "=": Some(pair), or None
\* for Err(CatBoxError::cli)
parse_env(text, vars) ==
  IF Len(text) = 2 THEN Some(<<text[1], text[2]>>)
  ELSE IF Len(text) = 1 THEN Some(<<text[1], UnwrapOrEmpty(EnvVar(vars, text[1]))>>)
  ELSE None

\* CatBoxBuilder::parse_env_list: Some(builder.env), or None for the first Err
RECURSIVE parse_env_list(_, _)
parse_env_list(list, vars) ==
  IF list = <<>> THEN Some(<<>>)
  ELSE LET pair == parse_env(Head(list), vars)
           rest == parse_env_list(Tail(list), vars)
       IN IF pair.some /\ rest.some THEN Some(<<pair.val>> \o rest.val) ELSE None

\* CatBoxBuilder::command: the env of the option, the default pairs of the
\* builder pushed after those of CatBoxOption::default
CommandEnv(builder_env, vars) == DefaultEnv(vars) \o builder_env

\* `format!("{}={}", key, value)`
FormatEnv(pair) == <<pair[1], "=", pair[2]>>

\* get_env: the strings handed to execvpe
get_env(option_env) == [i \in 1..Len(option_env) |-> FormatEnv(option_env[i])]

(***************************************************************************)
(* CatBoxCgroup::new                                                       *)
(***************************************************************************)
Controllers == {"cpuacct", "memory", "cpu", "pids"}

\* the cgroup operation that fails in an environment, if one does
CgroupFaults ==
  {"none", "build", "cpuacct_add_task", "memory_add_task", "cpu_add_task", "pids_add_task"}

\* the CatBoxCgroup struct (name left out)
CatBoxCgroup(built, enable_cpuacct, enable_memory) ==
  [cgroup |-> built, enable_cpuacct |-> enable_cpuacct, enable_memory |-> enable_memory]

\* builder.build(hierarchy) creates the directory, unless it fails
CgroupBuilt(fault) == fault # "build"

\* variant: force is not looked at after a failed build
CatBoxCgroup_new_Lenient(controllers, force, fault) ==
  LET enable_cpuacct == "cpuacct" \in controllers /\ fault # "cpuacct_add_task"
      enable_memory == "memory" \in controllers /\ fault # "memory_add_task"
  IN IF fault = "build"
       THEN [ok |-> TRUE, val |-> CatBoxCgroup(FALSE, FALSE, FALSE)]
     ELSE IF force /\ (~enable_cpuacct \/ ~enable_memory
                        \/ "cpu" \notin controllers \/ "pids" \notin controllers)
       THEN [ok |-> FALSE, val |-> CatBoxCgroup(FALSE, FALSE, FALSE)]
     ELSE [ok |-> TRUE, val |-> CatBoxCgroup(TRUE, enable_cpuacct, enable_memory)]

\* CatBoxCgroup::new on a hierarchy with the given controllers: Ok(struct) or
\* Err(CatBoxError::Cgroup)
CatBoxCgroup_new(controllers, force, fault) ==
  LET enable_cpuacct == "cpuacct" \in controllers /\ fault # "cpuacct_add_task"
      enable_memory == "memory" \in controllers /\ fault # "memory_add_task"
  IN IF fault = "build"
       THEN IF force
              THEN [ok |-> FALSE, val |-> CatBoxCgroup(FALSE, FALSE, FALSE)]
              ELSE [ok |-> TRUE, val |-> CatBoxCgroup(FALSE, FALSE, FALSE)]
     ELSE IF force /\ (~enable_cpuacct \/ ~enable_memory
                        \/ "cpu" \notin controllers \/ "pids" \notin controllers)
       THEN [ok |-> FALSE, val |-> CatBoxCgroup(FALSE, FALSE, FALSE)]
     ELSE [ok |-> TRUE, val |-> CatBoxCgroup(TRUE, enable_cpuacct, enable_memory)]

(***************************************************************************)
(* CatBoxCgroup::usage                                                     *)
(***************************************************************************)
\* largest tv_sec of the timevals getrusage reports here
MaxSec == 1

\* a timeval as getrusage fills it in: 0 <= tv_usec < 1000000
TimeVal(sec, usec) == [tv_sec |-> sec, tv_usec |-> usec]

\* variant: the microseconds are added without the carry into the seconds
TimeValAdd_NoCarry(a, b) ==
  TimeVal(a.tv_sec + b.tv_sec, (a.tv_usec + b.tv_usec) % 1000000)

\* `time_user + time_sys` on two timevals: the sum, normalised
TimeValAdd(a, b) ==
  LET total == (a.tv_sec + b.tv_sec) * 1000000 + a.tv_usec + b.tv_usec
  IN TimeVal(total \div 1000000, total % 1000000)

\* fn microseconds: a timeval in milliseconds
microseconds(val) == val.tv_sec * 1000 + val.tv_usec \div 1000

\* the read of a controller's counters that fails though the controller
\* was enabled at construction (controller_of gives None, or the reset
\* after the read fails), if one does
ReadFaults == {"none", "cpuacct", "memory"}

\* variant: the counters are read whenever the group was built
get_cpuacct_Unchecked(self, kernel) ==
  IF self.cgroup /\ kernel.fault # "cpuacct"
    THEN Some(kernel.cpuacct)
    ELSE None

\* get_cpuacct: Some(counters) for Ok, None for Err
get_cpuacct(self, kernel) ==
  IF self.enable_cpuacct /\ self.cgroup /\ kernel.fault # "cpuacct"
    THEN Some(kernel.cpuacct)
    ELSE None

\* get_memory: Some(<<memory, memsw>>) for Ok, None for Err
get_memory(self, kernel) ==
  IF self.enable_memory /\ self.cgroup /\ kernel.fault # "memory"
    THEN Some(kernel.memory)
    ELSE None

Max(a, b) == IF a >= b THEN a ELSE b

CatBoxUsage(time, time_user, time_sys, memory) ==
  [time |-> time, time_user |-> time_user, time_sys |-> time_sys, memory |-> memory]

\* variant: once the times fell back to getrusage, so does the memory
CatBoxCgroup_usage_Coupled(self, kernel) ==
  LET acct == get_cpuacct(self, kernel)
      mem == IF acct.some THEN get_memory(self, kernel) ELSE None
      ru == kernel.rusage
  IN CatBoxUsage(
       IF acct.some THEN acct.val.usage \div 1000000
                    ELSE microseconds(TimeValAdd(ru.ru_utime, ru.ru_stime)),
       IF acct.some THEN acct.val.usage_user \div 1000000
                    ELSE microseconds(ru.ru_utime),
       IF acct.some THEN acct.val.usage_sys \div 1000000
                    ELSE microseconds(ru.ru_stime),
       IF mem.some THEN Max(mem.val.max_usage_in_bytes, mem.val.memsw_max_usage_in_bytes)
                          \div 1024
                   ELSE ru.ru_maxrss)

\* CatBoxCgroup::usage, on what the kernel reports for the child
CatBoxCgroup_usage(self, kernel) ==
  LET acct == get_cpuacct(self, kernel)
      mem == get_memory(self, kernel)
      ru == kernel.rusage
  IN CatBoxUsage(
       IF acct.some THEN acct.val.usage \div 1000000
                    ELSE microseconds(TimeValAdd(ru.ru_utime, ru.ru_stime)),
       IF acct.some THEN acct.val.usage_user \div 1000000
                    ELSE microseconds(ru.ru_utime),
       IF acct.some THEN acct.val.usage_sys \div 1000000
                    ELSE microseconds(ru.ru_stime),
       IF mem.some THEN Max(mem.val.max_usage_in_bytes, mem.val.memsw_max_usage_in_bytes)
                          \div 1024
                   ELSE ru.ru_maxrss)

(***************************************************************************)
(* The older engine: the Stopped arm of the loop of sandbox.rs             *)
(***************************************************************************)
\* what the arm does at a stop: its ptrace request, and the pair it breaks
\* the loop with, if it breaks; the two panicking arms make no request
SandboxArm(request, breaks, signal) ==
  [request |-> request, breaks |-> breaks, pair |-> [status |-> None, signal |-> signal]]

sandbox_Stopped(filterOpt, stp) ==
  CASE stp.signal \in TimeoutSignals ->
         SandboxArm(Kill, TRUE, Some(stp.signal))
    [] stp.signal = "SIGTRAP" ->
         IF filterOpt.some /\ ~SyscallFilter_filter(filterOpt.val, stp.regs).ret
           THEN SandboxArm(Kill, TRUE, Some(stp.signal))
           ELSE SandboxArm(Syscall, FALSE, None)
    [] stp.signal \in {"SIGKILL", "SIGBUS", "SIGFPE", "SIGILL", "SIGSEGV", "SIGSYS", "SIGXFSZ"} ->
         SandboxArm(Kill, TRUE, Some(stp.signal))
    [] OTHER -> SandboxArm(NoRequest, FALSE, None)

(***************************************************************************)
(* Kernel: what a ptrace request does to a tracee that sits in a stop      *)
(***************************************************************************)
\* state of the tracee after a signal is delivered to it
Delivered(sig, caught) ==
  IF sig = "none" \/ caught \/ sig \in DefaultIgnored
    THEN [cstate |-> "running", wstatus |-> NoStatus]
    ELSE [cstate |-> "zombie", wstatus |-> Signaled(sig)]

Resumed(req, stp) ==
  CASE req.op = "cont" -> Delivered(req.signal, stp.signal = req.signal /\ stp.caught)
    [] req.op = "syscall" -> [cstate |-> "running", wstatus |-> NoStatus]
    [] req.op = "kill" -> [cstate |-> "zombie", wstatus |-> Signaled("SIGKILL")]

(***************************************************************************)
(* State                                                                   *)
(***************************************************************************)
VARIABLES
  \* run(): parent side
  pc,           \* where the parent is in run()
  option,       \* the CatBoxOption (the part run() reads here)
  filter,       \* `let mut filter = option.ptrace().clone()`
  last_signal,  \* `let mut last_signal: Option<Signal>`
  loop,         \* the (status, signal) pair the loop broke with
  ret,          \* what run() returned
  \* child process and kernel
  cstate,       \* "none", "prelude", "running", "stopped", "zombie", "reaped"
  traced,       \* the child has called ptrace(TRACEME)
  sysstops,     \* last resumed by PTRACE_SYSCALL: syscalls stop the tracee
  stop,         \* the ptrace stop the tracee sits in
  wstatus,      \* termination status of a zombie
  pipe_msg,     \* bytes the child wrote to the pipe
  writers,      \* the processes that hold the write end of the pipe open
  env,          \* the caller's credentials and the host's cgroup hierarchy
  proc,         \* the child process: credentials, alarm, rlimits, root, pdeathsig
  step,         \* the statement of the Child arm the child executes next; "left"
                \* after exec or _exit, "returned" after a return from run()
  trail,        \* the prelude actions the child has carried out, in order
  execed,       \* execvpe has succeeded: the child runs the user program
  host,         \* the mount table of the host, the directories made in the new root
  closed,       \* the caller has called close() on the option
  cgroup,       \* `let cgroup = CatBoxCgroup::new(&option, child)?`
  usage,        \* `let usage = cgroup.usage()`: the CatBoxUsage of the result
  cgdir,        \* the cgroup directory {label}/{label}.{pid} exists
  \* observations
  request,      \* last ptrace request the parent issued
  injected,     \* last signal a successful PTRACE_CONT injected into the tracee
  hit,          \* timeout/fatal signal that hit the program with no handler
  denied,       \* the syscall the filter has denied in this invocation
  loop_end,     \* the WaitStatus that ended the loop
  \* SyscallFilter API (SpecFilter)
  map,          \* SyscallFilter.map
  quota,        \* per id: count given to the allow() that made the entry
  allowed,      \* per id: filter calls that returned true since that allow()
  refused,      \* per id: a filter call was denied since that allow()
  last_op,      \* the last API call: "new", "enable Net", ..., "forbid", "allow", "add_fn", "filter"
  last_call,    \* the last filter call: entry found, registers, returned bool
  enabled,      \* presets enabled on this filter
  custom,       \* ids the caller set with forbid/allow/add_fn
  \* SyscallFilter::parse_presets (SpecParse)
  presets,      \* the Vec<String> argument
  parsed,       \* the returned Result<Option<SyscallFilter>, CatBoxError>
  \* CatBoxBuilder (SpecEnv)
  env_list,     \* the Vec<String> given to parse_env_list
  command,      \* "no", or how building the option ended: "Ok", "Err"
  \* the caller of run(): CatBox::start, or a program that uses the library
  catbox,       \* the commands, the one at hand, the results recorded, how
                \* start() returned, and the filters earlier runs ended with
  \* several run() at a time (SpecPids)
  invocations,  \* per invocation: where it is, the pid of its child, its cgroup
  \* the pipe between parent and child (SpecPipe, SpecWire)
  fds,          \* per process: where it is in run(), the fds it has open, the
                \* close() calls it made on each, the pipe value it holds;
                \* whether the child has written to the pipe, and what
                \* run() gave its caller in the parent
  wire          \* a text, the bytes written for it, what the reader returned

\* the variables the prelude acts on
prelude_vars == <<writers, env, proc, step, trail, execed, host, closed>>
run_vars ==
  <<pc, option, filter, last_signal, loop, ret, cstate, traced, sysstops, stop,
    wstatus, pipe_msg, request, injected, hit, denied, loop_end, prelude_vars, cgroup,
    usage, cgdir>>
api_vars == <<map, quota, allowed, refused, last_op, last_call, enabled, custom>>
parse_vars == <<presets, parsed>>
\* the variables of the library outside run()
build_vars == <<env_list, command, catbox, invocations, fds, wire>>
lib_vars == <<api_vars, parse_vars, build_vars>>
vars == <<run_vars, api_vars, parse_vars, build_vars>>

\* the filters a CatBoxOption can hold: disable_ptrace / "none", or a
\* composition of presets (builder.rs ptrace(), parse_ptrace_presets())
PresetFilters ==
  {SyscallFilter_new,
   enable(SyscallFilter_new, "Net"),
   enable(SyscallFilter_new, "Process"),
   SyscallFilter_default}

NoLoop == [status |-> None, signal |-> None]
NoCall == [perm |-> Absent, regs |-> NoRegs, ret |-> TRUE]

\* the ids a caller of the library edits directly in SpecFilter
CallerIds == {"execve", "socket"}
\* the ids that can hold an Allow entry
QuotaIds == CallerIds \cup ProcessAllowed
\* the ids SpecFilter asks the filter about: the caller's, one of each preset
\* arm, and one that no preset names
ProbeIds == CallerIds \cup {"execveat", "fork", "bind", "read"}

ApiInit ==
  /\ map = SyscallFilter_new
  /\ quota = [id \in QuotaIds |-> 0]
  /\ allowed = [id \in QuotaIds |-> 0]
  /\ refused = [id \in QuotaIds |-> FALSE]
  /\ last_op = "new"
  /\ last_call = NoCall
  /\ enabled = {}
  /\ custom = {}

\* what the kernel has accounted for one child that ran for a few
\* milliseconds: the cgroup counters and the rusage differ in every field
HostKernel ==
  [cpuacct |-> [usage |-> 5000000, usage_user |-> 3000000, usage_sys |-> 2000000],
   memory |-> [max_usage_in_bytes |-> 2097152, memsw_max_usage_in_bytes |-> 4194304],
   rusage |-> [ru_utime |-> TimeVal(0, 7000), ru_stime |-> TimeVal(0, 1000),
               ru_maxrss |-> 1500],
   fault |-> "none"]

\* MountPoint::defaults (two of its six read-only mounts)
MountPoint_defaults ==
  <<MountPoint(FALSE, <<"/", "bin">>), MountPoint(FALSE, <<"/", "lib64">>)>>
\* the directories of the host among the paths mounts name
HostDirs == {<<"/", "bin">>, <<"/", "lib64">>, <<"/", "data">>}

\* the variables of the caller's environment that are looked at here
VarNames == {"PATH", "LANG", "test"}
\* the environment of a judge process
HostVars == [n \in VarNames |-> IF n = "PATH" THEN Some("/usr/bin") ELSE None]

\* CatBoxOption::default: time_limit: 1000
DefaultTimeLimit == TimeLimit(Secs(0, 1), 0)

\* the CatBoxOption fields run() and CatBoxCgroup::new read here
Options ==
  [ptrace : {None} \cup {Some(m) : m \in PresetFilters},
   chroot : BOOLEAN, uid : Ids, gid : Ids, force : BOOLEAN,
   time_limit : {DefaultTimeLimit}, env : {DefaultEnv(HostVars)},
   mounts : {MountPoint_defaults}, cgroup : {"catbox"}]

\* the environments run() is called in
Envs ==
  [uid : Ids, gid : Ids, controllers : SUBSET Controllers, fault : CgroupFaults,
   kernel : {HostKernel}, vars : {HostVars}, dirs : {HostDirs},
   jail_fault : {"none"}, umount_fault : {FALSE}, cwd_exists : {TRUE}]

\* a judge host: run() is called by root, all four controllers are mounted
\* and work, programs run as the unprivileged account in the caller's root
HostEnv ==
  [uid |-> "root", gid |-> "root", controllers |-> Controllers, fault |-> "none",
   kernel |-> HostKernel, vars |-> HostVars, dirs |-> HostDirs,
   jail_fault |-> "none", umount_fault |-> FALSE, cwd_exists |-> TRUE]
HostOption(ptrace) ==
  [ptrace |-> ptrace, chroot |-> FALSE, uid |-> "judge", gid |-> "judge", force |-> FALSE,
   cgroup |-> "catbox",
   time_limit |-> DefaultTimeLimit, env |-> DefaultEnv(HostVars),
   mounts |-> MountPoint_defaults]

\* a host whose cgroup hierarchy cannot be written, with force set
BrokenEnv == [HostEnv EXCEPT !.fault = "build"]
BrokenOption(ptrace) == [HostOption(ptrace) EXCEPT !.force = TRUE]

NoCgroup == [some |-> FALSE]
NoUsage == [some |-> FALSE]

\* the state of one invocation when run() is entered, but for the cgroup
\* accountant
RunEntry ==
  /\ pc = "start"
  /\ writers = {}
  /\ proc = [uid |-> env.uid, gid |-> env.gid, alarm |-> FALSE, rlimits |-> {},
             jailed |-> FALSE, pdeathsig |-> FALSE, alarm_secs |-> None,
             rlimit_cpu |-> None, environ |-> None, cwd |-> "outside"]
  /\ step = "none"
  /\ trail = <<>>
  /\ execed = FALSE
  /\ filter = None
  /\ last_signal = None
  /\ loop = NoLoop
  /\ ret = NoReturn
  /\ cstate = "none"
  /\ traced = FALSE
  /\ sysstops = FALSE
  /\ stop = NoStop
  /\ wstatus = NoStatus
  /\ pipe_msg = <<>>
  /\ request = NoRequest
  /\ injected = None
  /\ hit = None
  /\ denied = None
  /\ loop_end = NoStatus

\* the first run() on a host where nothing is mounted yet
RunFresh ==
  /\ RunEntry
  /\ host = NoMounts
  /\ closed = FALSE

\* the state run() is entered in, for the option and environment at hand
RunStart ==
  /\ cgroup = NoCgroup
  /\ usage = NoUsage
  /\ cgdir = FALSE
  /\ RunFresh

RunInit ==
  /\ \E ptrace \in {None} \cup {Some(m) : m \in PresetFilters} :
       \/ option = HostOption(ptrace) /\ env = HostEnv
       \/ option = BrokenOption(ptrace) /\ env = BrokenEnv
  /\ RunStart

\* run() has not been called: the run() variables of the API specifications
RunIdle ==
  /\ option = HostOption(None)
  /\ env = HostEnv
  /\ RunStart

\* struct CatBox { context, options }, with the position of start() in its
\* loop; one run() called directly is a CatBox of no commands
CatBox(options) ==
  [options |-> options, index |-> 1, results |-> <<>>, ret |-> NoReturn, past |-> <<>>]
NoCatBox == CatBox(<<>>)

\* run() followed as one invocation only
NoInvocations == <<>>
\* no pipe has been made, no text is on its way
NoFds == <<>>
NoWire == <<>>

\* the option was built from an empty env list
BuildIdle ==
  /\ env_list = <<>>
  /\ command = "Ok"
  /\ catbox = NoCatBox
  /\ invocations = NoInvocations
  /\ fds = NoFds
  /\ wire = NoWire

ParseIdle ==
  /\ presets = <<>>
  /\ parsed = NotParsed
  /\ BuildIdle

\* the filter API is not used on its own: the API variables of Spec
ApiIdle == ApiInit /\ ParseIdle

Init == RunInit /\ ApiIdle

InitFilter == RunIdle /\ ApiInit /\ ParseIdle

child_vars == <<cstate, traced, sysstops, stop, wstatus, pipe_msg, hit, prelude_vars>>
parent_vars ==
  <<pc, filter, last_signal, loop, ret, request, injected, denied, loop_end, cgroup,
    usage, cgdir>>

(***************************************************************************)
(* run(): parent                                                           *)
(***************************************************************************)
\* impl Drop for CatBoxCgroup, run when run() leaves the scope of `cgroup`:
\* whether the directory exists afterwards
Drop(self) == IF self.some /\ self.val.cgroup THEN FALSE ELSE cgdir

\* CatBoxPipe::new()?, fork(), pipe.read()?
Fork ==
  /\ pc = "start"
  /\ \E outcome \in {"ok", "pipe2_fails", "fork_fails", "close_fails"} :
       CASE outcome = "pipe2_fails" ->
              /\ ret' = Err("Nix") /\ pc' = "done"
              /\ UNCHANGED <<cstate, step, writers>>
         [] outcome = "fork_fails" ->
              /\ ret' = Err("Fork") /\ pc' = "done"
              /\ UNCHANGED <<cstate, step, writers>>
         [] outcome = "close_fails" ->
              /\ ret' = Err("Nix") /\ pc' = "done"
              /\ cstate' = "prelude" /\ step' = Head(PreludeOrder)
              /\ writers' = {"parent", "child"}
         [] outcome = "ok" ->
              /\ ret' = ret /\ pc' = "cgroup"
              /\ cstate' = "prelude" /\ step' = Head(PreludeOrder)
              /\ writers' = {"child"}
  /\ UNCHANGED <<option, filter, last_signal, loop, traced, sysstops, stop, wstatus,
                 pipe_msg, request, injected, hit, denied, loop_end, env, proc, trail,
                 execed, host, closed, cgroup, usage, cgdir, lib_vars>>

\* CatBoxCgroup::new(&option, child)?, then the two `let mut` before the loop
CgroupNew ==
  /\ pc = "cgroup"
  /\ LET built == CatBoxCgroup_new(env.controllers, option.force, env.fault)
     IN IF built.ok
          THEN /\ pc' = "waitpid"
               /\ cgroup' = Some(built.val)
               /\ filter' = option.ptrace
               /\ last_signal' = None
               /\ ret' = ret
          ELSE /\ pc' = "done"
               /\ ret' = Err("Cgroup")
               /\ UNCHANGED <<filter, last_signal, cgroup>>
  /\ cgdir' = CgroupBuilt(env.fault)
  /\ UNCHANGED <<option, loop, child_vars, request, injected, denied, loop_end, usage,
                 lib_vars>>

\* `waitpid(child, None)?` returns an error
WaitpidFails ==
  /\ pc = "waitpid"
  /\ cstate \in {"prelude", "running", "stopped", "zombie"}
  /\ pc' = "done"
  /\ ret' = Err("Nix")
  /\ cgdir' = Drop(cgroup)
  /\ UNCHANGED <<option, filter, last_signal, loop, child_vars, request, injected,
                 denied, loop_end, cgroup, usage, lib_vars>>

\* WaitStatus::Exited(pid, status)
WaitExited ==
  /\ pc = "waitpid"
  /\ cstate = "zombie"
  /\ wstatus.kind = "exited"
  /\ cstate' = "reaped"
  /\ loop' = BreakExited(wstatus.code, last_signal)
  /\ loop_end' = wstatus
  /\ pc' = "after_loop"
  /\ UNCHANGED <<option, filter, last_signal, ret, traced, sysstops, stop, wstatus,
                 pipe_msg, request, injected, hit, denied, cgroup, usage, cgdir,
                 prelude_vars, lib_vars>>

\* WaitStatus::Signaled(pid, signal, _)
WaitSignaled ==
  /\ pc = "waitpid"
  /\ cstate = "zombie"
  /\ wstatus.kind = "signaled"
  /\ cstate' = "reaped"
  /\ loop' = BreakSignaled(wstatus.signal, last_signal)
  /\ loop_end' = wstatus
  /\ pc' = "after_loop"
  /\ UNCHANGED <<option, filter, last_signal, ret, traced, sysstops, stop, wstatus,
                 pipe_msg, request, injected, hit, denied, cgroup, usage, cgdir,
                 prelude_vars, lib_vars>>

\* variant: the arm goes back to waitpid without its ptrace request taking effect
Ptrace_Forget(req, alive) ==
  /\ request' = req
  /\ IF alive
       THEN /\ cstate' = cstate
            /\ wstatus' = wstatus
            /\ sysstops' = (req.op = "syscall")
            /\ injected' = IF req.op = "cont" /\ req.signal # "none"
                             THEN Some(req.signal) ELSE injected
            /\ pc' = "waitpid"
            /\ ret' = ret
            /\ cgdir' = cgdir
       ELSE /\ cstate' = "zombie"
            /\ wstatus' = Signaled("SIGKILL")
            /\ sysstops' = sysstops
            /\ injected' = injected
            /\ pc' = "done"
            /\ ret' = Err("Nix")
            /\ cgdir' = Drop(cgroup)
  /\ stop' = NoStop

\* the parent issues ptrace request req for the stop it was told about.
\* alive = FALSE: the tracee was killed (SIGKILL) since waitpid returned, the
\* request fails with ESRCH and `?` returns the error.
Ptrace(req, alive) ==
  /\ request' = req
  /\ IF alive
       THEN /\ cstate' = Resumed(req, stop).cstate
            /\ wstatus' = Resumed(req, stop).wstatus
            /\ sysstops' = (req.op = "syscall")
            /\ injected' = IF req.op = "cont" /\ req.signal # "none"
                             THEN Some(req.signal) ELSE injected
            /\ pc' = "waitpid"
            /\ ret' = ret
            /\ cgdir' = cgdir
       ELSE /\ cstate' = "zombie"
            /\ wstatus' = Signaled("SIGKILL")
            /\ sysstops' = sysstops
            /\ injected' = injected
            /\ pc' = "done"
            /\ ret' = Err("Nix")
            /\ cgdir' = Drop(cgroup)
  /\ stop' = NoStop

\* WaitStatus::Stopped(pid, SIGALRM | SIGVTALRM | SIGXCPU)
StoppedTimeout ==
  /\ pc = "waitpid"
  /\ cstate = "stopped"
  /\ stop.signal \in TimeoutSignals
  /\ last_signal' = RememberStop(last_signal, stop.signal)
  /\ \E alive \in BOOLEAN : Ptrace(ForwardStop(stop.signal), alive)
  /\ UNCHANGED <<option, filter, loop, traced, pipe_msg, hit, denied, loop_end, cgroup,
                 usage, prelude_vars, lib_vars>>

\* WaitStatus::Stopped(pid, SIGBUS | SIGFPE | SIGILL | SIGSEGV | SIGSYS | SIGXFSZ | SIGABRT)
StoppedFatal ==
  /\ pc = "waitpid"
  /\ cstate = "stopped"
  /\ stop.signal \in FatalSignals
  /\ last_signal' = RememberStop(last_signal, stop.signal)
  /\ \E alive \in BOOLEAN : Ptrace(ForwardStop(stop.signal), alive)
  /\ UNCHANGED <<option, filter, loop, traced, pipe_msg, hit, denied, loop_end, cgroup,
                 usage, prelude_vars, lib_vars>>

\* WaitStatus::Stopped(pid, SIGTRAP)
StoppedTrap ==
  /\ pc = "waitpid"
  /\ cstate = "stopped"
  /\ stop.signal = "SIGTRAP"
  /\ \E alive \in BOOLEAN, getregs_ok \in BOOLEAN :
       LET ok == alive /\ getregs_ok
           verdict == TrapVerdict(filter, ok, stop.regs)
       IN /\ filter' = TrapFilter(filter, ok, stop.regs)
          /\ denied' = IF verdict THEN denied ELSE Some(stop.regs.orig_rax)
          /\ Ptrace(TrapRequest(verdict), alive)
  /\ option' = [option EXCEPT !.ptrace = AfterClone(@, filter')]
  /\ UNCHANGED <<last_signal, loop, traced, pipe_msg, hit, loop_end, cgroup,
                 usage, prelude_vars, lib_vars>>

\* WaitStatus::Stopped(pid, SIGCONT | SIGHUP | SIGINT): unreachable!()
StoppedUnreachable ==
  /\ pc = "waitpid"
  /\ cstate = "stopped"
  /\ stop.signal \in UnreachableSignals
  /\ pc' = "done"
  /\ ret' = Panic("unreachable")
  /\ cgdir' = Drop(cgroup)
  /\ UNCHANGED <<option, filter, last_signal, loop, child_vars, request, injected,
                 denied, loop_end, cgroup, usage, lib_vars>>

\* WaitStatus::Stopped(pid, _): unimplemented!()
StoppedUnhandled ==
  /\ pc = "waitpid"
  /\ cstate = "stopped"
  /\ stop.signal \notin
       TimeoutSignals \cup FatalSignals \cup UnreachableSignals \cup {"SIGTRAP"}
  /\ pc' = "done"
  /\ ret' = Panic("unimplemented")
  /\ cgdir' = Drop(cgroup)
  /\ UNCHANGED <<option, filter, last_signal, loop, child_vars, request, injected,
                 denied, loop_end, cgroup, usage, lib_vars>>

\* after the loop: pipe.read(), the Exec error or the Result
AfterLoop ==
  /\ pc = "after_loop"
  /\ LET read == CatBoxReadPipe_read(pipe_msg, writers)
     IN /\ read.kind # "blocks"
        /\ ret' = AfterRead(read, loop)
  /\ usage' = IF ret'.kind = "Ok"
                THEN Some(CatBoxCgroup_usage(cgroup.val, env.kernel))
                ELSE usage
  /\ cgdir' = Drop(cgroup)
  /\ pc' = "done"
  /\ UNCHANGED <<option, filter, last_signal, loop, child_vars, request, injected,
                 denied, loop_end, cgroup, lib_vars>>

(***************************************************************************)
(* run(): child, and the user program after execvpe                        *)
(***************************************************************************)
\* the child goes on to the statement after s
Proceeds(s) ==
  /\ step' = StepAfter(s)
  /\ UNCHANGED <<cstate, wstatus, writers>>

\* the child process ends with the given exit status before execvpe
Ends(code) ==
  /\ cstate' = "zombie"
  /\ wstatus' = Exited(code)
  /\ step' = "left"
  /\ writers' = writers \ {"child"}

\* `?` in the Child arm: run() returns the error in the child process, which
\* goes on in the caller's code and ends with a status of the caller's choice
Returns ==
  \E code \in ExitCodes :
    /\ cstate' = "zombie"
    /\ wstatus' = Exited(code)
    /\ step' = "returned"
    /\ writers' = writers \ {"child"}

\* libc::prctl(PR_SET_PDEATHSIG, SIGTERM), `_exit(1)` when it fails
ChildPdeathsig ==
  /\ cstate = "prelude"
  /\ step = "prctl"
  /\ \E r \in {0, -1} :
       IF r = -1
         THEN /\ Ends(1)
              /\ UNCHANGED <<proc, trail>>
         ELSE /\ proc' = [proc EXCEPT !.pdeathsig = TRUE]
              /\ trail' = Append(trail, "prctl")
              /\ Proceeds("prctl")
  /\ UNCHANGED <<option, traced, sysstops, stop, pipe_msg, hit, env, host, closed, execed,
                 parent_vars, lib_vars>>

\* `let pipe = pipe.write()?`: close(read end)
ChildPipeWrite ==
  /\ cstate = "prelude"
  /\ step = "pipe_write"
  /\ \E close_ok \in BOOLEAN :
       IF close_ok
         THEN /\ trail' = Append(trail, "pipe_write")
              /\ Proceeds("pipe_write")
         ELSE /\ Returns
              /\ trail' = trail
  /\ UNCHANGED <<option, traced, sysstops, stop, pipe_msg, hit, env, host, closed, proc, execed,
                 parent_vars, lib_vars>>

\* `redirect_io(&option)?`: three freopen calls whose results are not looked
\* at, then Ok(())
ChildRedirectIo ==
  /\ cstate = "prelude"
  /\ step = "redirect_io"
  /\ trail' = Append(trail, "redirect_io")
  /\ Proceeds("redirect_io")
  /\ UNCHANGED <<option, traced, sysstops, stop, pipe_msg, hit, env, host, closed, proc, execed,
                 parent_vars, lib_vars>>

\* `if let Some(chroot) = option.chroot() { match change_root(..) .. }`: the
\* mounts and chroot(2) need the superuser; a failure is logged
ChildChangeRoot ==
  /\ cstate = "prelude"
  /\ step = "change_root"
  /\ IF option.chroot
       THEN LET jail == change_root(NewRoot, option.mounts, env, proc.uid = "root", host)
            IN /\ proc' = [proc EXCEPT !.jailed = jail.jailed, !.cwd = jail.cwd]
               /\ host' = jail.host
               /\ trail' = Append(trail, "change_root")
       ELSE UNCHANGED <<proc, trail, host>>
  /\ Proceeds("change_root")
  /\ UNCHANGED <<option, traced, sysstops, stop, pipe_msg, hit, env, execed, closed,
                 parent_vars, lib_vars>>

\* set_alarm(&option)
ChildSetAlarm ==
  /\ cstate = "prelude"
  /\ step = "set_alarm"
  /\ LET set == AlarmSet(option.time_limit)
     IN IF set.some
          THEN /\ proc' = [proc EXCEPT !.alarm = TRUE, !.alarm_secs = set]
               /\ trail' = Append(trail, "set_alarm")
               /\ Proceeds("set_alarm")
          ELSE /\ Ends(PanicExitCode)
               /\ UNCHANGED <<proc, trail>>
  /\ UNCHANGED <<option, traced, sysstops, stop, pipe_msg, hit, env, host, closed, execed,
                 parent_vars, lib_vars>>

\* `set_resource_limit(&option)?`: four setrlimit calls, each with `?`
ChildSetResourceLimit ==
  /\ cstate = "prelude"
  /\ step = "set_resource_limit"
  /\ \E set \in 0..Len(Rlimits) :
       /\ proc' = [proc EXCEPT !.rlimits = {Rlimits[i] : i \in 1..set},
                               !.rlimit_cpu = IF set >= 1
                                                THEN Some(CpuRlimit(option.time_limit))
                                                ELSE None]
       /\ IF set = Len(Rlimits)
            THEN /\ trail' = Append(trail, "set_resource_limit")
                 /\ Proceeds("set_resource_limit")
            ELSE /\ Returns
                 /\ trail' = trail
  /\ UNCHANGED <<option, traced, sysstops, stop, pipe_msg, hit, env, host, closed, execed,
                 parent_vars, lib_vars>>

\* `if let Err(err) = setgid(option.gid()) { error!(..) }`
ChildSetgid ==
  /\ cstate = "prelude"
  /\ step = "setgid"
  /\ proc' = IF MaySetId(proc.uid, proc.gid, option.gid)
               THEN [proc EXCEPT !.gid = option.gid] ELSE proc
  /\ trail' = Append(trail, "setgid")
  /\ Proceeds("setgid")
  /\ UNCHANGED <<option, traced, sysstops, stop, pipe_msg, hit, env, host, closed, execed,
                 parent_vars, lib_vars>>

\* `if let Err(err) = setuid(option.uid()) { error!(..) }`
ChildSetuid ==
  /\ cstate = "prelude"
  /\ step = "setuid"
  /\ proc' = IF MaySetId(proc.uid, proc.uid, option.uid)
               THEN [proc EXCEPT !.uid = option.uid] ELSE proc
  /\ trail' = Append(trail, "setuid")
  /\ Proceeds("setuid")
  /\ UNCHANGED <<option, traced, sysstops, stop, pipe_msg, hit, env, host, closed, execed,
                 parent_vars, lib_vars>>

\* `if option.ptrace().is_some() { ptrace::traceme().unwrap(); }`: the unwrap
\* panics in the child when the process already has a tracer
ChildPtraceTraceme ==
  /\ cstate = "prelude"
  /\ step = "traceme"
  /\ IF option.ptrace.some
       THEN \E traceme_ok \in BOOLEAN :
              IF traceme_ok
                THEN /\ traced' = TRUE
                     /\ trail' = Append(trail, "traceme")
                     /\ Proceeds("traceme")
                ELSE /\ Ends(PanicExitCode)
                     /\ UNCHANGED <<traced, trail>>
       ELSE /\ Proceeds("traceme")
            /\ UNCHANGED <<traced, trail>>
  /\ UNCHANGED <<option, sysstops, stop, pipe_msg, hit, env, host, closed, proc, execed,
                 parent_vars, lib_vars>>

\* variant: the exec of a tracee does not stop it
ChildExec_NoStop ==
  /\ cstate = "prelude"
  /\ step = "execvpe"
  /\ \E exec_ok \in BOOLEAN, rdi \in {0, 1} :
       IF exec_ok
         THEN /\ pipe_msg' = pipe_msg
              /\ wstatus' = wstatus
              /\ execed' = TRUE
              /\ proc' = [proc EXCEPT !.environ = Some(get_env(option.env))]
              /\ cstate' = "running"
              /\ stop' = stop
         ELSE /\ pipe_msg' = ExecvpeMessage
              /\ cstate' = "zombie"
              /\ wstatus' = Exited(1)
              /\ stop' = stop
              /\ execed' = execed
              /\ proc' = proc
  /\ trail' = Append(trail, "execvpe")
  /\ step' = "left"
  /\ writers' = writers \ {"child"}
  /\ UNCHANGED <<option, traced, sysstops, hit, env, host, closed, parent_vars, lib_vars>>

\* execvpe; on failure the message goes to the pipe and the child _exit(1)s.
\* A successful exec closes the close-on-exec write end, and the exec of a
\* tracee ends in a SIGTRAP stop whose orig_rax is execve.
ChildExec ==
  /\ cstate = "prelude"
  /\ step = "execvpe"
  /\ \E exec_ok \in BOOLEAN, rdi \in {0, 1} :
       IF exec_ok
         THEN /\ pipe_msg' = pipe_msg
              /\ wstatus' = wstatus
              /\ execed' = TRUE
              /\ proc' = [proc EXCEPT !.environ = Some(get_env(option.env))]
              /\ IF traced
                   THEN /\ cstate' = "stopped"
                        /\ stop' = Stop("SIGTRAP", [orig_rax |-> "execve", rdi |-> rdi], FALSE)
                   ELSE /\ cstate' = "running"
                        /\ stop' = stop
         ELSE /\ pipe_msg' = ExecvpeMessage
              /\ cstate' = "zombie"
              /\ wstatus' = Exited(1)
              /\ stop' = stop
              /\ execed' = execed
              /\ proc' = proc
  /\ trail' = Append(trail, "execvpe")
  /\ step' = "left"
  /\ writers' = writers \ {"child"}
  /\ UNCHANGED <<option, traced, sysstops, hit, env, host, closed, parent_vars, lib_vars>>

\* the program enters or leaves a syscall while PTRACE_SYSCALL is in force
ChildSyscall ==
  /\ cstate = "running"
  /\ traced
  /\ sysstops
  /\ \E regs \in Regs :
       /\ regs.orig_rax # "none"
       /\ stop' = Stop("SIGTRAP", regs, FALSE)
  /\ cstate' = "stopped"
  /\ UNCHANGED <<option, traced, sysstops, wstatus, pipe_msg, hit, prelude_vars,
                 parent_vars, lib_vars>>

\* a signal arrives for the program (alarm, rlimit, fault, kill(2), OOM killer).
\* SIGKILL always terminates; a tracee stops for every other signal before it
\* is delivered; without a tracer the signal is delivered at once.
ChildSignal ==
  /\ cstate = "running"
  /\ \E sig \in Signal, caught \in BOOLEAN :
       /\ sig \in {"SIGKILL", "SIGTRAP"} => ~caught
       /\ hit' = IF sig \in TimeoutSignals \cup FatalSignals /\ ~caught /\ ~hit.some
                   THEN Some(sig) ELSE hit
       /\ IF sig = "SIGKILL"
            THEN /\ cstate' = "zombie"
                 /\ wstatus' = Signaled("SIGKILL")
                 /\ stop' = stop
            ELSE IF traced
              THEN /\ cstate' = "stopped"
                   /\ stop' = Stop(sig, NoRegs, caught)
                   /\ wstatus' = wstatus
              ELSE /\ cstate' = Delivered(sig, caught).cstate
                   /\ wstatus' = Delivered(sig, caught).wstatus
                   /\ stop' = stop
  /\ UNCHANGED <<option, traced, sysstops, pipe_msg, prelude_vars,
                 parent_vars, lib_vars>>

\* the program exits
ChildExit ==
  /\ cstate = "running"
  /\ \E code \in ExitCodes : wstatus' = Exited(code)
  /\ cstate' = "zombie"
  /\ UNCHANGED <<option, traced, sysstops, stop, pipe_msg, hit, prelude_vars,
                 parent_vars, lib_vars>>

\* a program that runs without a filter calls ptrace(PTRACE_TRACEME) itself
ChildTraceme ==
  /\ cstate = "running"
  /\ ~traced
  /\ traced' = TRUE
  /\ UNCHANGED <<option, cstate, sysstops, stop, wstatus, pipe_msg, hit, prelude_vars,
                 parent_vars, lib_vars>>

Parent ==
  \/ Fork
  \/ CgroupNew
  \/ WaitpidFails
  \/ WaitExited
  \/ WaitSignaled
  \/ StoppedTimeout
  \/ StoppedFatal
  \/ StoppedTrap
  \/ StoppedUnreachable
  \/ StoppedUnhandled
  \/ AfterLoop

Child ==
  \/ ChildPdeathsig
  \/ ChildPipeWrite
  \/ ChildRedirectIo
  \/ ChildChangeRoot
  \/ ChildSetAlarm
  \/ ChildSetResourceLimit
  \/ ChildSetgid
  \/ ChildSetuid
  \/ ChildPtraceTraceme
  \/ ChildExec
  \/ ChildSyscall
  \/ ChildSignal
  \/ ChildExit
  \/ ChildTraceme

\* option.close() by the caller of run(), once run() has returned
Close ==
  /\ pc = "done"
  /\ ~closed
  /\ closed' = TRUE
  /\ host' = CatBoxOption_close(option.chroot, NewRoot, option.mounts, env, host)
  /\ UNCHANGED <<pc, option, filter, last_signal, loop, ret, request, injected, denied,
                 loop_end, cgroup, usage, cgdir, cstate, traced, sysstops, stop,
                 wstatus, pipe_msg, hit, writers, env, proc, step, trail, execed,
                 lib_vars>>

Caller == Close

Next == Parent \/ Child \/ Caller

Spec == Init /\ [][Next]_vars

(***************************************************************************)
(* SyscallFilter API                                                       *)
(***************************************************************************)
\* the entries of the ids in ids were (re)written: restart their history
Restart(ids, count) ==
  /\ quota' = [id \in QuotaIds |-> IF id \in ids THEN count ELSE quota[id]]
  /\ allowed' = [id \in QuotaIds |-> IF id \in ids THEN 0 ELSE allowed[id]]
  /\ refused' = [id \in QuotaIds |-> IF id \in ids THEN FALSE ELSE refused[id]]

EnableOp(feature) ==
  CASE feature = "Net" -> "enable Net"
    [] feature = "Process" -> "enable Process"
    [] feature = "Thread" -> "enable Thread"

\* filter.enable(feature)
ApiEnable ==
  /\ \E feature \in RestrictedSyscall :
       /\ map' = enable(map, feature)
       /\ last_op' = EnableOp(feature)
       /\ enabled' = enabled \cup {feature}
       /\ custom' = IF feature = "Net" THEN custom \ NetSyscalls
                    ELSE IF feature = "Process"
                      THEN custom \ (ProcessAllowed \cup ProcessForbidden)
                    ELSE custom
       /\ IF feature = "Process" THEN Restart(ProcessAllowed, 1)
                                 ELSE UNCHANGED <<quota, allowed, refused>>
  /\ last_call' = NoCall
  /\ UNCHANGED <<run_vars, parse_vars, build_vars>>

\* filter.forbid(id)
ApiForbid ==
  /\ \E id \in CallerIds :
       /\ map' = forbid(map, id)
       /\ custom' = custom \cup {id}
       /\ Restart({id}, 0)
  /\ last_op' = "forbid"
  /\ last_call' = NoCall
  /\ UNCHANGED <<enabled, run_vars, parse_vars, build_vars>>

\* filter.allow(id, count)
ApiAllow ==
  /\ \E id \in CallerIds, count \in (-MaxQuota)..MaxQuota :
       /\ map' = allow(map, id, count)
       /\ custom' = custom \cup {id}
       /\ Restart({id}, count)
  /\ last_op' = "allow"
  /\ last_call' = NoCall
  /\ UNCHANGED <<enabled, run_vars, parse_vars, build_vars>>

\* filter.add_fn(id, func)
ApiAddFn ==
  /\ \E id \in CallerIds, func \in FilterFuncs :
       /\ map' = add_fn(map, id, func)
       /\ custom' = custom \cup {id}
       /\ Restart({id}, 0)
  /\ last_op' = "add_fn"
  /\ last_call' = NoCall
  /\ UNCHANGED <<enabled, run_vars, parse_vars, build_vars>>

\* filter.filter(&pid, &regs) for a syscall number in ids
FilterCall(ids) ==
  /\ \E regs \in Regs :
       LET id == regs.orig_rax
           r == SyscallFilter_filter(map, regs)
           counted == id \in QuotaIds /\ map[id].t = "Allow"
       IN /\ id \in ids
          /\ map[id].t = "Allow" => map[id].count > -(MaxQuota + MaxCalls)
          /\ map' = r.map
          /\ last_call' = [perm |-> map[id], regs |-> regs, ret |-> r.ret]
          /\ allowed' = IF counted /\ r.ret
                          THEN [allowed EXCEPT ![id] = @ + 1] ELSE allowed
          /\ refused' = IF counted /\ ~r.ret
                          THEN [refused EXCEPT ![id] = TRUE] ELSE refused
  /\ last_op' = "filter"
  /\ UNCHANGED <<quota, enabled, custom, run_vars, parse_vars, build_vars>>

ApiFilter == FilterCall(ProbeIds)

NextFilter ==
  \/ ApiEnable
  \/ ApiForbid
  \/ ApiAllow
  \/ ApiAddFn
  \/ ApiFilter

SpecFilter == InitFilter /\ [][NextFilter]_vars

(***************************************************************************)
(* Presets: a filter built by enable() alone, asked about every syscall    *)
(***************************************************************************)
PresetEnable == ApiEnable

PresetFilter == FilterCall(SyscallId)

NextPreset ==
  \/ PresetEnable
  \/ PresetFilter

SpecPreset == InitFilter /\ [][NextPreset]_vars

(***************************************************************************)
(* SyscallFilter::parse_presets, called on its own                         *)
(***************************************************************************)
InitParse ==
  /\ RunIdle
  /\ ApiInit
  /\ BuildIdle
  /\ presets \in UNION {PresetLists(n) : n \in 0..MaxWords}
  /\ parsed = NotParsed

ParsePresets ==
  /\ parsed = NotParsed
  /\ parsed' = parse_presets(presets)
  /\ UNCHANGED <<presets, run_vars, api_vars, build_vars>>

NextParse == ParsePresets

SpecParse == InitParse /\ [][NextParse]_vars

(***************************************************************************)
(* run() for every caller, account and jail                                *)
(***************************************************************************)
InitPrelude ==
  /\ option \in {o \in Options :
                   o.ptrace \in {None, Some(SyscallFilter_default)} /\ ~o.force}
  /\ env \in {e \in Envs : e.gid = e.uid /\ e.controllers = Controllers /\ e.fault = "none"}
  /\ RunStart
  /\ ApiIdle

SpecPrelude == InitPrelude /\ [][Next]_vars

(***************************************************************************)
(* run() for every cgroup hierarchy                                        *)
(***************************************************************************)
InitCgroup ==
  /\ option \in {o \in Options :
                   o.ptrace = None /\ ~o.chroot /\ o.uid = "judge" /\ o.gid = "judge"}
  /\ env \in {e \in Envs : e.uid = "root" /\ e.gid = "root"}
  /\ RunStart
  /\ ApiIdle

SpecCgroup == InitCgroup /\ [][Next]_vars

(***************************************************************************)
(* run() and close() for every jail                                        *)
(***************************************************************************)
\* most mounts added to the defaults
MaxMounts == 1

\* the mounts a caller adds: a writable directory
RECURSIVE AddedMounts(_)
AddedMounts(n) ==
  IF n = 0 THEN {<<>>}
  ELSE {<<MountPoint(TRUE, <<"/", "data">>)>> \o l : l \in AddedMounts(n - 1)}

\* hosts on which some of the paths are not directories
JailDirs ==
  {HostDirs, HostDirs \ {<<"/", "lib64">>}, HostDirs \ {<<"/", "data">>}, {}}

\* the jail does not depend on the filter: a filter is configured on the
\* judge host only; umount failures and a missing cwd are looked at where
\* change_root meets no failure
InitJail ==
  /\ \E added \in UNION {AddedMounts(n) : n \in 0..MaxMounts},
        ptrace \in {None, Some(SyscallFilter_default)} :
       /\ option = [HostOption(ptrace) EXCEPT !.chroot = TRUE,
                                              !.mounts = MountPoint_defaults \o added]
       /\ ptrace.some => env = HostEnv
  /\ \E dirs \in JailDirs, fault \in JailFaults, busy, exists \in BOOLEAN :
       /\ env = [HostEnv EXCEPT !.dirs = dirs, !.jail_fault = fault,
                                !.umount_fault = busy, !.cwd_exists = exists]
       /\ fault # "none" => (~busy /\ exists)
  /\ RunStart
  /\ ApiIdle

SpecJail == InitJail /\ [][Next]_vars

(***************************************************************************)
(* run() for every time limit                                              *)
(***************************************************************************)
\* largest number of whole seconds below which, and below the largest
\* c_uint, the time limits are taken
MaxSecs == 1

\* time limits of a few seconds and time limits around 2^32 seconds, on and
\* next to a multiple of 1000 milliseconds
TimeLimits ==
  {TimeLimit(secs, millis) :
     secs \in {Secs(0, lo) : lo \in 0..MaxSecs}
               \cup {Secs(3, 1073741823 - lo) : lo \in 0..MaxSecs},
     millis \in {0, 1, 999}}

InitLimits ==
  /\ \E ptrace \in {None, Some(SyscallFilter_default)}, t \in TimeLimits :
       option = [HostOption(ptrace) EXCEPT !.time_limit = t]
  /\ env = HostEnv
  /\ RunStart
  /\ ApiIdle

SpecLimits == InitLimits /\ [][Next]_vars

(***************************************************************************)
(* The environment of the program for every parent environment and list    *)
(***************************************************************************)
\* longest env list
MaxEnv == 2

\* the environments of the parent
ParentVars ==
  {v \in [VarNames -> {None, Some("/bin"), Some("/usr/bin"), Some("value"), Some("C")}] :
     /\ v["PATH"] \in {None, Some("/bin"), Some("/usr/bin")}
     /\ v["LANG"] \in {None, Some("C"), Some("value")}
     /\ v["test"] \in {None, Some("value")}}

\* env arguments, as their pieces between "="
EnvArgs == {<<"LANG">>, <<"LANG", "C">>, <<"HOME", "/">>, <<"A", "B", "C">>}

RECURSIVE EnvLists(_)
EnvLists(n) ==
  IF n = 0 THEN {<<>>}
  ELSE {<<a>> \o l : a \in EnvArgs, l \in EnvLists(n - 1)}

InitEnv ==
  /\ \E v \in ParentVars :
       /\ env = [HostEnv EXCEPT !.vars = v]
       /\ option = [HostOption(None) EXCEPT !.env = DefaultEnv(v)]
  /\ env_list \in UNION {EnvLists(n) : n \in 0..MaxEnv}
  /\ command = "no"
  /\ catbox = NoCatBox
  /\ invocations = NoInvocations
  /\ fds = NoFds
  /\ wire = NoWire
  /\ RunStart
  /\ ApiInit
  /\ presets = <<>>
  /\ parsed = NotParsed

\* CatBoxBuilder::parse_env_list(list)?, then command(), which pushes the
\* pairs after those of CatBoxOption::default
BuildOption ==
  /\ command = "no"
  /\ LET builder_env == parse_env_list(env_list, env.vars)
     IN IF builder_env.some
          THEN /\ command' = "Ok"
               /\ option' = [option EXCEPT !.env = CommandEnv(builder_env.val, env.vars)]
          ELSE /\ command' = "Err"
               /\ option' = option
  /\ UNCHANGED <<pc, filter, last_signal, loop, ret, request, injected, denied,
                 loop_end, cgroup, usage, cgdir, cstate, traced, sysstops, stop,
                 wstatus, pipe_msg, hit, writers, env, proc, step, trail, execed,
                 host, closed, env_list, catbox, invocations, fds, wire, api_vars, parse_vars>>

\* get_env(&option), as the child calls it before execvpe
GetEnv ==
  /\ command = "Ok"
  /\ ~proc.environ.some
  /\ proc' = [proc EXCEPT !.environ = Some(get_env(option.env))]
  /\ UNCHANGED <<pc, option, filter, last_signal, loop, ret, request, injected, denied,
                 loop_end, cgroup, usage, cgdir, cstate, traced, sysstops, stop,
                 wstatus, pipe_msg, hit, writers, env, step, trail, execed, host, closed, lib_vars>>

NextEnv == BuildOption \/ GetEnv

SpecEnv == InitEnv /\ [][NextEnv]_vars

(***************************************************************************)
(* run() called again on the option of a run that has returned             *)
(***************************************************************************)
MaxRuns == 2

\* run() is entered: RunEntry of the state after the step
RunEntered ==
  /\ pc' = "start"
  /\ writers' = {}
  /\ proc' = [uid |-> env.uid, gid |-> env.gid, alarm |-> FALSE, rlimits |-> {},
              jailed |-> FALSE, pdeathsig |-> FALSE, alarm_secs |-> None,
              rlimit_cpu |-> None, environ |-> None, cwd |-> "outside"]
  /\ step' = "none"
  /\ trail' = <<>>
  /\ execed' = FALSE
  /\ filter' = None
  /\ last_signal' = None
  /\ loop' = NoLoop
  /\ ret' = NoReturn
  /\ cstate' = "none"
  /\ traced' = FALSE
  /\ sysstops' = FALSE
  /\ stop' = NoStop
  /\ wstatus' = NoStatus
  /\ pipe_msg' = <<>>
  /\ request' = NoRequest
  /\ injected' = None
  /\ hit' = None
  /\ denied' = None
  /\ loop_end' = NoStatus

\* the caller calls run(&option) once more; the mounts of the host stay
RunAgain ==
  /\ pc = "done"
  /\ ~closed
  /\ Len(catbox.past) + 1 < MaxRuns
  /\ catbox' = [catbox EXCEPT !.past = Append(@, filter)]
  /\ RunEntered
  /\ cgroup' = NoCgroup
  /\ usage' = NoUsage
  /\ cgdir' = FALSE
  /\ UNCHANGED <<option, env, host, closed, env_list, command, invocations, fds, wire, api_vars,
                 parse_vars>>

InitRerun ==
  /\ \E ptrace \in {None, Some(SyscallFilter_default)} :
       option = HostOption(ptrace) /\ env = HostEnv
  /\ RunStart
  /\ ApiIdle

NextRerun == Next \/ RunAgain

SpecRerun == InitRerun /\ [][NextRerun]_vars

(***************************************************************************)
(* CatBox::start: the commands of a CatBox run one after the other         *)
(***************************************************************************)
MaxCommands == 2

\* CatBoxResult::new(status, signal, usage)
CatBoxResult(result, used) ==
  [status |-> result.status, signal |-> result.signal, usage |-> used]

\* variant: a command that failed is passed over
StartAfter_SkipErr(self, result, used) ==
  [self EXCEPT
     !.results = IF result.kind = "Ok" THEN Append(@, CatBoxResult(result, used)) ELSE @,
     !.index = @ + 1,
     !.ret = IF self.index = Len(self.options) THEN Ok(None, None) ELSE @]

\* one turn of the loop of start once run() has come back: `?` returns the
\* Err, else add_result pushes the result and the loop goes on or start
\* returns Ok(()); a panic of run() goes through start
StartAfter(self, result, used) ==
  IF result.kind = "Ok"
    THEN [self EXCEPT !.results = Append(@, CatBoxResult(result, used)),
                      !.index = @ + 1,
                      !.ret = IF self.index = Len(self.options) THEN Ok(None, None) ELSE @]
    ELSE [self EXCEPT !.ret = result]

\* what one run() can come back with: a Result for an exit status or a
\* signal, an error of each variant of this call chain, a panic of the loop
RunResults ==
  {Ok(Some(code), None) : code \in ExitCodes}
    \cup {Ok(None, Some(sig)) : sig \in {"SIGKILL", "SIGSEGV"}}
    \cup {Ok(Some(0), Some("SIGXCPU"))}
    \cup {Err("Fork"), Err("Nix"), Err("Cgroup"), ExecError(ExecvpeMessage),
          Panic("unreachable")}

\* crate::run(&option) as start sees it: it comes back with one of its results
RunReturns ==
  /\ pc = "start"
  /\ catbox.options # <<>>
  /\ \E result \in RunResults :
       /\ ret' = result
       /\ usage' = IF result.kind = "Ok"
                      THEN Some(CatBoxCgroup_usage(CatBoxCgroup(TRUE, TRUE, TRUE), env.kernel))
                      ELSE usage
  /\ pc' = "done"
  /\ UNCHANGED <<option, filter, last_signal, loop, request, injected, denied, loop_end,
                 cgroup, cgdir, child_vars, lib_vars>>

\* `for option in self.options.iter() { let result = crate::run(&option)?; .. }`
Start ==
  /\ pc = "done"
  /\ catbox.options # <<>>
  /\ catbox.ret = NoReturn
  /\ catbox' = StartAfter(catbox, ret, usage.val)
  /\ IF catbox'.ret = NoReturn
       THEN /\ option' = catbox.options[catbox'.index]
            /\ RunEntered
            /\ cgroup' = NoCgroup
            /\ usage' = NoUsage
            /\ cgdir' = FALSE
       ELSE UNCHANGED <<option, run_vars>>
  /\ UNCHANGED <<env, host, closed, env_list, command, invocations, fds, wire, api_vars,
                 parse_vars>>

\* the commands of a CatBox: with the default filter or with none
Commands(n) ==
  [1..n -> {HostOption(None), HostOption(Some(SyscallFilter_default))}]

InitStart ==
  /\ \E n \in 1..MaxCommands : \E options \in Commands(n) :
       /\ catbox = CatBox(options)
       /\ option = options[1]
  /\ env = HostEnv
  /\ RunStart
  /\ ApiInit
  /\ presets = <<>>
  /\ parsed = NotParsed
  /\ env_list = <<>>
  /\ command = "Ok"
  /\ invocations = NoInvocations
  /\ fds = NoFds
  /\ wire = NoWire

NextStart == RunReturns \/ Start

SpecStart == InitStart /\ [][NextStart]_vars

(***************************************************************************)
(* Several run() at a time under one cgroup name: the pids of the children *)
(* and the cgroup paths                                                    *)
(***************************************************************************)
MaxPid == 3
MaxInvocations == 2

\* the pids the kernel hands out, and the processes that call run()
Pids == 1..MaxPid
Invocation == 1..MaxInvocations

\* `format!("{}/{}.{}", params.cgroup, params.cgroup, child.as_raw())`
cgroup_name(name, child) == <<name, "/", name, ".", child>>

\* the children that hold their pid: forked and not yet reaped
LivePids ==
  {invocations[i].child : i \in {j \in Invocation : invocations[j].at \in {"forked", "loop"}}}

\* what the steps of the invocations leave alone
pids_frame == <<run_vars, api_vars, parse_vars, env_list, command, catbox, fds, wire>>

\* fork(): the kernel gives the child a pid no live process has
InvokeFork(i) ==
  /\ invocations[i].at = "start"
  /\ \E child \in Pids \ LivePids :
       invocations' = [invocations EXCEPT ![i].at = "forked", ![i].child = child]
  /\ UNCHANGED pids_frame

\* CatBoxCgroup::new(&option, child): the cgroup of the invocation is made
InvokeCgroup(i) ==
  /\ invocations[i].at = "forked"
  /\ invocations' =
       [invocations EXCEPT ![i].at = "loop",
                           ![i].cgroup = Some(cgroup_name(option.cgroup, invocations[i].child))]
  /\ UNCHANGED pids_frame

\* the loop ends: waitpid has reported the end of the child and reaped it
InvokeReap(i) ==
  /\ invocations[i].at = "loop"
  /\ invocations' = [invocations EXCEPT ![i].at = "after_loop"]
  /\ UNCHANGED pids_frame

\* pipe.read(), cgroup.usage(), Ok(..): run() returns and drops the cgroup
InvokeReturn(i) ==
  /\ invocations[i].at = "after_loop"
  /\ invocations' = [invocations EXCEPT ![i].at = "done", ![i].cgroup = None]
  /\ UNCHANGED pids_frame

InitPids ==
  /\ invocations = [i \in Invocation |-> [at |-> "start", child |-> 0, cgroup |-> None]]
  /\ option = HostOption(None)
  /\ env = HostEnv
  /\ RunStart
  /\ ApiInit
  /\ presets = <<>>
  /\ parsed = NotParsed
  /\ env_list = <<>>
  /\ command = "Ok"
  /\ catbox = NoCatBox
  /\ fds = NoFds
  /\ wire = NoWire

NextPids ==
  \E i \in Invocation :
    InvokeFork(i) \/ InvokeCgroup(i) \/ InvokeReap(i) \/ InvokeReturn(i)

SpecPids == InitPids /\ [][NextPids]_vars

(***************************************************************************)
(* The pipe of run(): which process closes which fd                        *)
(***************************************************************************)
\* `pub struct CatBoxPipe(RawFd, RawFd)`: the read fd and the write fd
PipeFds == {"read_fd", "write_fd"}
Procs == {"parent", "child"}

\* a process that has no pipe yet
NoPipe(at) ==
  [at |-> at, open |-> {}, closes |-> [fd \in PipeFds |-> 0], holds |-> "none"]

\* `close(fd)` in process p
close(f, p, fd) == [f EXCEPT ![p].open = @ \ {fd}, ![p].closes[fd] = @ + 1]

\* CatBoxPipe::new: `pipe2(O_CLOEXEC | O_NONBLOCK)?` gives both fds
CatBoxPipe_new(f, p) == [f EXCEPT ![p].open = PipeFds, ![p].holds = "CatBoxPipe"]

\* CatBoxPipe::read(self): `close(self.1)?; Ok(CatBoxReadPipe(self.0))`
CatBoxPipe_read(f, p) == [close(f, p, "write_fd") EXCEPT ![p].holds = "CatBoxReadPipe"]

\* CatBoxPipe::write(self): `close(self.0)?; Ok(CatBoxWritePipe(self.1))`
CatBoxPipe_write(f, p) == [close(f, p, "read_fd") EXCEPT ![p].holds = "CatBoxWritePipe"]

\* the value a process holds goes out of scope: impl Drop for CatBoxReadPipe
\* and for CatBoxWritePipe is `close(self.0).unwrap()`; CatBoxPipe has no Drop
DropPipe(f, p) ==
  CASE f[p].holds = "CatBoxReadPipe" -> [close(f, p, "read_fd") EXCEPT ![p].holds = "dropped"]
    [] f[p].holds = "CatBoxWritePipe" -> [close(f, p, "write_fd") EXCEPT ![p].holds = "dropped"]
    [] f[p].holds = "CatBoxPipe" -> [f EXCEPT ![p].holds = "dropped"]
    [] OTHER -> f

\* CatBoxReadPipe::close(self) and CatBoxWritePipe::close(self): `Ok(())`,
\* and self is dropped
Pipe_close(f, p) == DropPipe(f, p)

\* the process image ends (_exit, or execvpe with O_CLOEXEC fds): the kernel
\* releases the fds, no close() is called
Released(f, p) == [f EXCEPT ![p].open = {}]

At(f, p, at) == [f EXCEPT ![p].at = at]
\* what run() gives its caller in the parent
Ret(f, result) == [f EXCEPT !.result = result]

\* what the steps on the pipe leave alone
pipe_frame ==
  <<run_vars, api_vars, parse_vars, env_list, command, catbox, invocations, wire>>

\* `let pipe = CatBoxPipe::new()?`
PipeNew ==
  /\ fds.parent.at = "new"
  /\ \E ok \in BOOLEAN :
       fds' = IF ok THEN At(CatBoxPipe_new(fds, "parent"), "parent", "fork")
                    ELSE Ret(At(fds, "parent", "returned"), "Err Nix")
  /\ UNCHANGED pipe_frame

\* `match unsafe { fork() }`: the child gets a copy of the fds and of the
\* value; `Err(err) => Err(CatBoxError::fork(..))` leaves run() with `pipe`
PipeFork ==
  /\ fds.parent.at = "fork"
  /\ \E ok \in BOOLEAN :
       fds' = IF ok
                THEN [fds EXCEPT !.parent.at = "pipe_read",
                                 !.child = [fds.parent EXCEPT !.at = "prctl"]]
                ELSE Ret(At(DropPipe(fds, "parent"), "parent", "returned"), "Err Fork")
  /\ UNCHANGED pipe_frame

\* Parent: `let pipe = pipe.read()?`
PipeParentRead ==
  /\ fds.parent.at = "pipe_read"
  /\ fds' = At(CatBoxPipe_read(fds, "parent"), "parent", "cgroup")
  /\ UNCHANGED pipe_frame

\* Parent: `CatBoxCgroup::new(&option, child)?`
PipeParentCgroup ==
  /\ fds.parent.at = "cgroup"
  /\ \E ok \in BOOLEAN :
       fds' = IF ok THEN At(fds, "parent", "loop")
                    ELSE Ret(At(DropPipe(fds, "parent"), "parent", "returned"), "Err Cgroup")
  /\ UNCHANGED pipe_frame

\* Parent: the loop. `waitpid(child, None)?` fails, an arm panics
\* (unreachable!, unimplemented!) and the stack unwinds, or the child has
\* terminated and the loop breaks
PipeParentLoop ==
  /\ fds.parent.at = "loop"
  /\ \/ fds' = Ret(At(DropPipe(fds, "parent"), "parent", "returned"), "Err Nix")
     \/ fds' = Ret(At(DropPipe(fds, "parent"), "parent", "panicked"), "panic")
     \/ /\ fds.child.at = "exited"
        /\ fds' = At(fds, "parent", "after_loop")
  /\ UNCHANGED pipe_frame

\* Parent: `if let Ok(message) = pipe.read() { if message.len() > 0 {`
PipeParentAfterLoop ==
  /\ fds.parent.at = "after_loop"
  /\ fds' = At(fds, "parent", IF fds.written THEN "close_exec_error" ELSE "close")
  /\ UNCHANGED pipe_frame

\* Parent: `pipe.close()?` before `return Err(..)`, or before cgroup.usage()
\* and `Ok(..)`
PipeParentClose ==
  /\ fds.parent.at \in {"close_exec_error", "close"}
  /\ fds' = Ret(At(Pipe_close(fds, "parent"), "parent", "returned"),
                 IF fds.parent.at = "close" THEN "Ok" ELSE "Err Exec")
  /\ UNCHANGED pipe_frame

\* Child: `prctl(PR_SET_PDEATHSIG, SIGTERM)`, `_exit(1)` if it gives -1
PipeChildPrctl ==
  /\ fds.child.at = "prctl"
  /\ \E r \in {0, -1} :
       fds' = IF r = -1 THEN At(Released(fds, "child"), "child", "exited")
                        ELSE At(fds, "child", StepAfter("prctl"))
  /\ UNCHANGED pipe_frame

\* Child: `let pipe = pipe.write()?`
PipeChildWrite ==
  /\ fds.child.at = "pipe_write"
  /\ fds' = At(CatBoxPipe_write(fds, "child"), "child", StepAfter("pipe_write"))
  /\ UNCHANGED pipe_frame

\* Child: the statements that cannot leave run(): redirect_io gives Ok(()),
\* the results of change_root, set_alarm, setgid and setuid are not returned
PipeChildStep ==
  /\ fds.child.at \in {"redirect_io", "change_root", "set_alarm", "setgid", "setuid"}
  /\ fds' = At(fds, "child", StepAfter(fds.child.at))
  /\ UNCHANGED pipe_frame

\* Child: `set_resource_limit(&option)?` returns from run();
\* `ptrace::traceme().unwrap()` panics
PipeChildPrelude ==
  /\ fds.child.at \in {"set_resource_limit", "traceme"}
  /\ \E ok \in BOOLEAN :
       fds' = IF ok
                THEN At(fds, "child", StepAfter(fds.child.at))
                ELSE At(DropPipe(fds, "child"), "child",
                        IF fds.child.at = "set_resource_limit" THEN "returned" ELSE "panicked")
  /\ UNCHANGED pipe_frame

\* Child: execvpe. The new image keeps no O_CLOEXEC fd; after a failure
\* `pipe.write(..)?; pipe.close()?; libc::_exit(1)`
PipeChildExec ==
  /\ fds.child.at = "execvpe"
  /\ \E ok \in BOOLEAN :
       fds' = IF ok
                THEN At(IF "O_CLOEXEC" \in PipeFlags THEN Released(fds, "child") ELSE fds,
                        "child", "execed")
                ELSE [At(Released(Pipe_close(fds, "child"), "child"), "child", "exited")
                        EXCEPT !.written = TRUE]
  /\ UNCHANGED pipe_frame

\* the process that came out of the Child arm ends: the user program, the
\* caller's code run() returned into, or the unwound panic
PipeChildEnds ==
  /\ fds.child.at \in {"execed", "returned", "panicked"}
  /\ fds' = At(Released(fds, "child"), "child", "exited")
  /\ UNCHANGED pipe_frame

InitPipe ==
  /\ fds = [parent |-> NoPipe("new"), child |-> NoPipe("none"), written |-> FALSE,
            result |-> "none"]
  /\ wire = NoWire
  /\ invocations = NoInvocations
  /\ option = HostOption(None)
  /\ env = HostEnv
  /\ RunStart
  /\ ApiInit
  /\ presets = <<>>
  /\ parsed = NotParsed
  /\ env_list = <<>>
  /\ command = "Ok"
  /\ catbox = NoCatBox

NextPipe ==
  \/ PipeNew
  \/ PipeFork
  \/ PipeParentRead
  \/ PipeParentCgroup
  \/ PipeParentLoop
  \/ PipeParentAfterLoop
  \/ PipeParentClose
  \/ PipeChildPrctl
  \/ PipeChildWrite
  \/ PipeChildStep
  \/ PipeChildPrelude
  \/ PipeChildExec
  \/ PipeChildEnds

SpecPipe == InitPipe /\ [][NextPipe]_vars

(***************************************************************************)
(* The pipe of run(): a text written and read back                         *)
(***************************************************************************)
\* `vec![0 as u8; 128]`: the length of the reader's buffer
BufLen == 128

\* the longest text written, in bytes
MaxLen == 130

\* A text is the sequence of the bytes of a String (`text.into_bytes()`).
\* n times the byte b
Bytes(b, n) == [i \in 1..n |-> b]
\* n times the two bytes 0xC3 0xA9 of U+00E9
TwoByteChars(n) == [i \in 1..(2 * n) |-> IF i % 2 = 1 THEN 195 ELSE 169]

\* the texts written: ASCII texts and texts of two-byte characters of every
\* length up to MaxLen, the latter also after one ASCII byte, and texts that
\* hold a NUL
Texts ==
  {Bytes(97, n) : n \in 0..MaxLen}
    \cup {TwoByteChars(n) : n \in 1..(MaxLen \div 2)}
    \cup {<<97>> \o TwoByteChars(n) : n \in 1..((MaxLen - 1) \div 2)}
    \cup {<<0>>, <<97, 0, 98>>, <<195, 169, 0>>}

\* CatBoxWritePipe::write: `bytes.push(0); unistd::write(self.0, &bytes)?`
\* puts the bytes of the text and a NUL behind what the pipe holds
CatBoxWritePipe_write(pipe, text) == pipe \o Append(text, 0)

\* `unistd::read(self.0, buf.as_mut_slice())?` into `vec![0 as u8; 128]`: the
\* first bytes of the pipe, as many as the buffer takes, the rest of the
\* buffer stays 0
ReadBuf(pipe) ==
  [i \in 1..BufLen |-> IF i <= Len(pipe) THEN pipe[i] ELSE 0]

\* what the pipe holds after that read
ReadRest(pipe) ==
  IF Len(pipe) <= BufLen THEN <<>> ELSE SubSeq(pipe, BufLen + 1, Len(pipe))

\* variant: the whole buffer is decoded
TakeWhileNonZero_All(buf) == buf

\* `buf.into_iter().take_while(|b| *b != 0).collect::<Vec<u8>>()`
TakeWhileNonZero(buf) ==
  LET zeros == {i \in 1..Len(buf) : buf[i] = 0}
  IN IF zeros = {} THEN buf
     ELSE SubSeq(buf, 1, (CHOOSE i \in zeros : \A j \in zeros : i <= j) - 1)

\* the number of bytes of the UTF-8 sequence that starts with byte b, 0 if no
\* sequence starts with it
Utf8Width(b) ==
  CASE b < 128 -> 1
    [] b \in 194..223 -> 2
    [] b \in 224..239 -> 3
    [] b \in 240..244 -> 4
    [] OTHER -> 0

\* the values the second byte of a sequence that starts with b may have
Utf8Second(b) ==
  CASE b = 224 -> 160..191
    [] b = 237 -> 128..159
    [] b = 240 -> 144..191
    [] b = 244 -> 128..143
    [] OTHER -> 128..191

\* String::from_utf8 accepts the bytes: the first byte starts a sequence, and
\* every byte that starts one is followed by exactly the continuation bytes
\* (0x80..0xBF) of its sequence
Utf8Valid(bytes) ==
  LET cont(k) == bytes[k] \in 128..191
  IN /\ bytes # <<>> => ~cont(1)
     /\ \A i \in 1..Len(bytes) :
          ~cont(i) =>
            LET w == Utf8Width(bytes[i])
            IN /\ w > 0
               /\ i + w - 1 <= Len(bytes)
               /\ w > 1 => bytes[i + 1] \in Utf8Second(bytes[i])
               /\ \A k \in (i + 2)..(i + w - 1) : cont(k)
               /\ i + w <= Len(bytes) => ~cont(i + w)

\* `String::from_utf8(buf).ok().unwrap_or("".to_string())`
from_utf8_or_empty(bytes) == IF Utf8Valid(bytes) THEN bytes ELSE <<>>

\* CatBoxReadPipe::read on a pipe that holds the bytes pipe: reading the
\* empty non-blocking pipe is an error (EAGAIN), else the text of the buffer
CatBoxReadPipe_read_bytes(pipe) ==
  IF pipe = <<>>
    THEN [kind |-> "Err", text |-> <<>>, buf |-> <<>>]
    ELSE [kind |-> "Ok", text |-> from_utf8_or_empty(TakeWhileNonZero(ReadBuf(pipe))),
          buf |-> ReadBuf(pipe)]

\* what the steps of writer and reader leave alone
wire_frame ==
  <<run_vars, api_vars, parse_vars, env_list, command, catbox, invocations, fds>>

\* the child: `pipe.write(text)`
WireWrite ==
  /\ wire.at = "write"
  /\ wire' = [wire EXCEPT !.pipe = CatBoxWritePipe_write(@, wire.text), !.at = "read"]
  /\ UNCHANGED wire_frame

\* the parent: `pipe.read()`
WireRead ==
  /\ wire.at = "read"
  /\ wire' = [wire EXCEPT !.got = CatBoxReadPipe_read_bytes(wire.pipe),
                          !.pipe = ReadRest(@), !.at = "done"]
  /\ UNCHANGED wire_frame

InitWire ==
  /\ \E text \in Texts :
       wire = [text |-> text, pipe |-> <<>>, at |-> "write",
               got |-> [kind |-> "none", text |-> <<>>, buf |-> <<>>]]
  /\ fds = NoFds
  /\ invocations = NoInvocations
  /\ option = HostOption(None)
  /\ env = HostEnv
  /\ RunStart
  /\ ApiInit
  /\ presets = <<>>
  /\ parsed = NotParsed
  /\ env_list = <<>>
  /\ command = "Ok"
  /\ catbox = NoCatBox

NextWire == WireWrite \/ WireRead

SpecWire == InitWire /\ [][NextWire]_vars

(***************************************************************************)
(* CatBoxCgroup::usage for every accountant and every kernel report        *)
(***************************************************************************)
\* the structs CatBoxCgroup::new returns
CgroupStructs ==
  {CatBoxCgroup_new(c, f, x).val :
     <<c, f, x>> \in {t \in (SUBSET Controllers) \X BOOLEAN \X CgroupFaults :
                      CatBoxCgroup_new(t[1], t[2], t[3]).ok}}

\* cpu times in nanoseconds, around the millisecond boundary
NsValues == {0, 1999999, 2000000}
\* timevals with microseconds around the millisecond and the second boundary
TimeVals == {TimeVal(sec, usec) : sec \in 0..MaxSec, usec \in {0, 999, 999999}}

Kernels ==
  [cpuacct : [usage : NsValues, usage_user : NsValues, usage_sys : NsValues],
   memory : [max_usage_in_bytes : {1024, 4096}, memsw_max_usage_in_bytes : {2048}],
   rusage : [ru_utime : TimeVals, ru_stime : TimeVals, ru_maxrss : {3}],
   fault : ReadFaults]

InitUsage ==
  /\ option = HostOption(None)
  /\ \E k \in Kernels : env = [HostEnv EXCEPT !.kernel = k]
  /\ cgroup \in {Some(c) : c \in CgroupStructs}
  /\ usage = NoUsage
  /\ cgdir = cgroup.val.cgroup
  /\ RunFresh
  /\ ApiIdle

\* cgroup.usage()
Usage ==
  /\ cgroup.some
  /\ ~usage.some
  /\ usage' = Some(CatBoxCgroup_usage(cgroup.val, env.kernel))
  /\ UNCHANGED <<pc, option, filter, last_signal, loop, ret, request, injected, denied,
                 loop_end, cgroup, cgdir, child_vars, lib_vars>>

NextUsage == Usage

SpecUsage == InitUsage /\ [][NextUsage]_vars

(***************************************************************************)
(* Scheduling of run(): the parent takes its next step whenever it can     *)
(* (WaitpidFails is an error of the environment, not a step it must take). *)
(***************************************************************************)
Supervise ==
  \/ Fork
  \/ CgroupNew
  \/ WaitExited
  \/ WaitSignaled
  \/ StoppedTimeout
  \/ StoppedFatal
  \/ StoppedTrap
  \/ StoppedUnreachable
  \/ StoppedUnhandled
  \/ AfterLoop

FairSpec == Spec /\ WF_vars(Supervise)

(***************************************************************************)
(* Properties of run()                                                     *)
(***************************************************************************)
\* the loop was left through a `break`, not through `?` or a panic
LoopBroke == loop_end.kind # "none"

\* in this state waitpid is about to report the stop, and the step handles it
HandlesStop == pc = "waitpid" /\ cstate = "stopped" /\ stop' # stop

\* the ptrace call of the step failed because the tracee is gone
PtraceFailed ==
  /\ pc' = "done"
  /\ ret' = Err("Nix")
  /\ cstate' = "zombie"

\* C1 as stated: every Result has exactly one of status and signal set.
C1_ExactlyOne ==
  ret.kind = "Ok" => (ret.status.some # ret.signal.some)

\* C1, amended: every Result has at least one of status and signal set; both
\* are set exactly when the child exited normally after the parent had
\* forwarded a timeout or fatal stop signal to it.
C1_AtLeastOne ==
  ret.kind = "Ok" =>
    /\ ret.status.some \/ ret.signal.some
    /\ (ret.status.some /\ ret.signal.some) <=> (loop_end.kind = "exited" /\ injected.some)

C1_Witness ==
  /\ ret.kind = "Ok"
  /\ ret.status = Some(0)
  /\ ret.signal = Some("SIGALRM")

\* C2: when waitpid reports Exited(code) the loop ends with status =
\* Some(code) and signal = the last timeout or fatal stop signal the parent
\* forwarded (None if there was none), the Result carries that pair, and the
\* handling of a SIGTRAP stop leaves the remembered signal alone.
C2_Exited ==
  /\ [](loop_end.kind = "exited" =>
          /\ pc \in {"after_loop", "done"}
          /\ loop.status = Some(loop_end.code)
          /\ loop.signal = injected
          /\ ret.kind = "Ok" => (ret.status = Some(loop_end.code) /\ ret.signal = injected))
  /\ [][HandlesStop /\ stop.signal = "SIGTRAP" => last_signal' = last_signal]_vars

C2_Witness ==
  /\ ret.kind = "Ok"
  /\ loop_end = Exited(42)
  /\ ret.signal = Some("SIGXCPU")
  /\ request.op = "syscall"

\* C3: when waitpid reports Signaled(sig) the loop ends with status = None
\* and signal = Some(sig), whatever stop signal was remembered, and the
\* Result carries that pair.
C3_Signaled ==
  loop_end.kind = "signaled" =>
    /\ pc \in {"after_loop", "done"}
    /\ loop = [status |-> None, signal |-> Some(loop_end.signal)]
    /\ ret.kind = "Ok" => (ret.status = None /\ ret.signal = Some(loop_end.signal))

C3_Witness ==
  /\ ret.kind = "Ok"
  /\ loop_end = Signaled("SIGKILL")
  /\ last_signal = Some("SIGALRM")

\* C4: on a stop by a timeout or fatal signal the parent remembers that
\* signal, issues ptrace cont with that same signal (never without one),
\* neither breaks nor kills, and goes back to waitpid with the signal
\* delivered to the child; the step ends otherwise only when the ptrace call
\* itself fails.
C4_Forward ==
  [][HandlesStop /\ stop.signal \in TimeoutSignals \cup FatalSignals =>
       /\ last_signal' = Some(stop.signal)
       /\ request' = [op |-> "cont", signal |-> stop.signal]
       /\ loop_end' = NoStatus
       /\ \/ /\ pc' = "waitpid"
             /\ injected' = Some(stop.signal)
             /\ cstate' = IF stop.caught THEN "running" ELSE "zombie"
             /\ ~stop.caught => wstatus' = Signaled(stop.signal)
          \/ PtraceFailed]_vars

C4_Witness ==
  /\ pc = "waitpid"
  /\ request = [op |-> "cont", signal |-> "SIGXFSZ"]
  /\ last_signal = Some("SIGXFSZ")
  /\ cstate = "running"

\* C5: when the program is hit by a timeout or fatal signal for which it has
\* no handler, run comes to its end, and where the loop ended with a wait
\* status the outcome is the Result with status = None and signal = that
\* signal.
C5_UncaughtSignal ==
  /\ [](hit.some /\ LoopBroke /\ pc = "done" => ret = Ok(None, hit))
  /\ [](hit.some /\ ret.kind = "Ok" => ret = Ok(None, hit))
  /\ (hit.some ~> pc = "done")

C5_Witness ==
  /\ traced
  /\ option.ptrace.some
  /\ hit = Some("SIGSEGV")
  /\ ret = Ok(None, Some("SIGSEGV"))

\* C6: when the filter denies a syscall of the traced child the parent
\* issues ptrace kill, run comes to its end, and where the loop ended with a
\* wait status the outcome is the Result with status = None and signal =
\* SIGKILL.
C6_DeniedSyscall ==
  /\ [][~denied.some /\ denied'.some => request' = [op |-> "kill", signal |-> "none"]]_vars
  /\ [](denied.some /\ LoopBroke /\ pc = "done" => ret = Ok(None, Some("SIGKILL")))
  /\ [](denied.some /\ ret.kind = "Ok" => ret = Ok(None, Some("SIGKILL")))
  /\ (denied.some ~> pc = "done")

C6_Witness ==
  /\ option.ptrace = Some(SyscallFilter_default)
  /\ denied = Some("fork")
  /\ ret = Ok(None, Some("SIGKILL"))

(***************************************************************************)
(* Properties of SyscallFilter                                             *)
(***************************************************************************)
\* C7: one filter call decides by the entry of the syscall number: absent
\* allows, Forbid denies, Allow(n) with n > 0 allows and leaves Allow(n-1),
\* Allow(0) denies, a predicate entry gives the predicate's result; the map
\* changes only by that decrement of an allowed Allow entry.
C7_FilterDecides ==
  [][last_op' = "filter" =>
       LET regs == last_call'.regs
           id == regs.orig_rax
           perm == map[id]
           result == last_call'.ret
       IN /\ last_call'.perm = perm
          /\ perm.t = "Absent" => (result /\ map' = map)
          /\ perm.t = "Forbid" => (~result /\ map' = map)
          /\ (perm.t = "Allow" /\ perm.count > 0) =>
               (result /\ map' = [map EXCEPT ![id] = [t |-> "Allow", count |-> perm.count - 1]])
          /\ (perm.t = "Allow" /\ perm.count = 0) => (~result /\ map' = map)
          /\ perm.t = "FilterFn" =>
               /\ map' = map
               /\ perm.func = "fn_true" => result
               /\ perm.func = "fn_false" => ~result
               /\ perm.func = "fn_rdi_is_zero" => (result <=> regs.rdi = 0)
          /\ map' # map =>
               /\ perm.t = "Allow"
               /\ result
               /\ map' = [map EXCEPT ![id] = [t |-> "Allow", count |-> perm.count - 1]]]_vars

C7_Witness ==
  /\ last_op = "filter"
  /\ last_call.perm = [t |-> "Allow", count |-> 2]
  /\ last_call.ret
  /\ map[last_call.regs.orig_rax] = [t |-> "Allow", count |-> 1]

\* C8 as stated, for an entry made by allow(id, n) once a call for id has
\* returned true: the calls that returned true number at most n and the
\* remaining quota is not negative.
C8_Quota ==
  \A id \in QuotaIds :
    (map[id].t = "Allow" /\ allowed[id] > 0) =>
      /\ allowed[id] <= quota[id]
      /\ map[id].count >= 0

\* the syscalls C9 lists for the Network preset
ClaimedNetwork ==
  {"socket", "bind", "listen", "accept", "accept4", "shutdown", "socketpair",
   "getsockopt", "setsockopt", "getsockname", "getpeername"}

\* the filter was asked about id and said res
Asked(id, res) ==
  /\ last_op = "filter"
  /\ last_call.regs.orig_rax = id
  /\ last_call.ret = res

\* C9 as stated: a filter with the Network preset enabled denies every one of
\* socket, bind, listen, accept, accept4, shutdown, socketpair, getsockopt,
\* setsockopt, getsockname, getpeername.
C9_NetworkDenies ==
  "Net" \in enabled => \A id \in ClaimedNetwork : ~Asked(id, TRUE)

\* C9, amended: a filter with the Network preset enabled, and so the default
\* filter, denies every one of bind, listen, accept, accept4, shutdown,
\* socketpair, getsockopt, setsockopt, getsockname, getpeername; socket is
\* not part of the preset.
C9_NetworkDeniesButSocket ==
  /\ "Net" \in enabled => \A id \in ClaimedNetwork \ {"socket"} : ~Asked(id, TRUE)
  /\ ~Asked("socket", FALSE)
  /\ last_op = "enable Net" =>
       /\ \A id \in ClaimedNetwork \ {"socket"} : map[id] = [t |-> "Forbid"]
       /\ enabled = {"Net"} => map["socket"] = [t |-> "Absent"]
  /\ \A id \in ClaimedNetwork \ {"socket"} :
       SyscallFilter_default[id] = [t |-> "Forbid"]

C9_Witness ==
  /\ "Net" \in enabled
  /\ Asked("shutdown", FALSE)

\* the syscalls the presets name
NamedBy(feature) ==
  CASE feature = "Net" -> ClaimedNetwork \ {"socket"}
    [] feature = "Process" -> {"execve", "execveat", "fork", "vfork", "clone", "clone3"}
    [] feature = "Thread" -> {}

\* C10: enabling the Process preset leaves Allow(1) for execve and execveat
\* and Forbid for fork, vfork, clone and clone3, in the default filter too,
\* and a filter made of presets allows every syscall none of them names.
C10_ProcessPreset ==
  /\ last_op = "enable Process" =>
       /\ \A id \in {"execve", "execveat"} : map[id] = [t |-> "Allow", count |-> 1]
       /\ \A id \in {"fork", "vfork", "clone", "clone3"} : map[id] = [t |-> "Forbid"]
  /\ \A id \in {"execve", "execveat"} :
       SyscallFilter_default[id] = [t |-> "Allow", count |-> 1]
  /\ \A id \in {"fork", "vfork", "clone", "clone3"} :
       SyscallFilter_default[id] = [t |-> "Forbid"]
  /\ "Process" \in enabled =>
       \A id \in {"fork", "vfork", "clone", "clone3"} : ~Asked(id, TRUE)
  /\ \A id \in SyscallId :
       (\A feature \in enabled : id \notin NamedBy(feature)) => ~Asked(id, FALSE)

C10_Witness ==
  /\ enabled = {"Net", "Process"}
  /\ Asked("clone3", FALSE)
  /\ map["execve"] = [t |-> "Allow", count |-> 1]

(***************************************************************************)
(* Properties of SyscallFilter::parse_presets                              *)
(***************************************************************************)
ValidTokens == {"none", "net", "network", "process", "all"}

\* the tokens parse_presets was called with
CalledTokens == PresetTokens(presets)

HasUnknownToken == \E i \in 1..Len(CalledTokens) : CalledTokens[i] \notin ValidTokens

\* C11 as stated: parse_presets returns the CLI error for every list that has
\* a token other than none, net, network, process and all, wherever in the
\* list that token stands.
C11_UnknownTokenFatal ==
  (parsed # NotParsed /\ HasUnknownToken) => parsed = ParseErr("Cli")

\* the presets a token names
NamedPresets(token) ==
  CASE token \in {"net", "network"} -> {"Net"}
    [] token = "process" -> {"Process"}
    [] token = "all" -> {"Net", "Process"}
    [] OTHER -> {}

\* the filter composed of a set of presets
Composed(features) ==
  LET net == IF "Net" \in features THEN enable(SyscallFilter_new, "Net") ELSE SyscallFilter_new
  IN IF "Process" \in features THEN enable(net, "Process") ELSE net

\* the filter composed of the presets the tokens name
ComposedOf(tokens) == Composed(UNION {NamedPresets(tokens[i]) : i \in 1..Len(tokens)})

\* the token lists that are a reordering of tokens
Reorderings(tokens) ==
  {[i \in 1..Len(tokens) |-> tokens[perm[i]]] : perm \in Permutations(1..Len(tokens))}

AllTokensValid == \A i \in 1..Len(CalledTokens) : CalledTokens[i] \in ValidTokens

HasNone == \E i \in 1..Len(CalledTokens) : CalledTokens[i] = "none"

\* C12 as stated: on a list of valid tokens parse_presets returns the filter
\* composed of the presets the tokens name, none naming no preset, so that
\* none by itself gives an empty filter.
C12_ComposedFilter ==
  (parsed # NotParsed /\ AllTokensValid) =>
    parsed = ParseOk(Some(ComposedOf(CalledTokens)))

\* C12, amended: on a list of valid tokens without none parse_presets
\* returns the filter composed of the presets the tokens name, whatever their
\* order; on a list of valid tokens with none in it, it returns no filter at
\* all (Ok(None)), which is not the empty filter.
C12_ComposedOrNoFilter ==
  (parsed # NotParsed /\ AllTokensValid) =>
    /\ ~HasNone => parsed = ParseOk(Some(ComposedOf(CalledTokens)))
    /\ HasNone => parsed = ParseOk(None)
    /\ \A tokens \in Reorderings(CalledTokens) :
         ParseLoop(tokens, SyscallFilter_new) = parsed

C12_Witness ==
  /\ CalledTokens = <<"process", "network", "all">>
  /\ Len(presets) = 2
  /\ parsed = ParseOk(Some(SyscallFilter_default))

(***************************************************************************)
(* Properties of the child prelude and of the pre-exec pipe                *)
(***************************************************************************)
\* execvpe has failed: the child has written its message
ExecFailed == pipe_msg # <<>>

\* the text has the part in it
Contains(text, part) == \E i \in 1..Len(text) : text[i] = part

\* C13 as stated: when execvpe fails the child writes a message beginning
\* "Execvpe fails: " and exits with code 1, and the run that waited for the
\* child returns an Exec error whose message contains "Execvpe fails".
C13_MessageContains ==
  /\ ExecFailed => (Head(pipe_msg) = ExecvpePrefix /\ wstatus = Exited(1))
  /\ (ExecFailed /\ LoopBroke /\ pc = "done") =>
       /\ ret.kind = "Err"
       /\ ret.error = "Exec"
       /\ Contains(ret.message, ExecvpePrefix)

\* C13, amended: when execvpe fails the child writes a message beginning
\* "Execvpe fails: " and exits with code 1; run comes to its end, never with
\* a Result, and where the loop ended with a wait status it returns the Exec
\* error whose message is the child's text after that prefix, so the message
\* does not contain "Execvpe fails".
C13_ExecError ==
  /\ [](ExecFailed =>
          /\ Head(pipe_msg) = ExecvpePrefix
          /\ wstatus = Exited(1)
          /\ cstate \in {"zombie", "reaped"}
          /\ ~execed)
  /\ []((ExecFailed /\ LoopBroke /\ pc = "done") =>
          /\ ret = ErrMsg("Exec", Tail(pipe_msg))
          /\ ~Contains(ret.message, ExecvpePrefix))
  /\ [](ExecFailed => ret.kind # "Ok")
  /\ (ExecFailed ~> pc = "done")

C13_Witness ==
  /\ traced
  /\ loop_end = Exited(1)
  /\ ret = ErrMsg("Exec", <<"No such file or directory (Errno: ENOENT)">>)

\* C14 as stated: when the child ended before a successful exec, the run
\* that waited for it returns an Exec error and not a Result; after a
\* successful exec nothing comes through the pipe and that run returns a
\* Result.
C14_PreExecErrorReported ==
  /\ (~execed /\ LoopBroke /\ pc = "done") => (ret.kind = "Err" /\ ret.error = "Exec")
  /\ execed => ~ExecFailed
  /\ (execed /\ LoopBroke /\ pc = "done") => ret.kind = "Ok"

\* C15: the pipe read after the loop never waits, so run gets from the end of
\* the loop to its return; a successful exec has closed the child's write end
\* with nothing written, and when nothing was written the read gives no
\* message and run returns the Result of the loop.
C15_ReadReturns ==
  /\ [](pc = "after_loop" => CatBoxReadPipe_read(pipe_msg, writers).kind = "Ok")
  /\ [](execed => (pipe_msg = <<>> /\ "child" \notin writers))
  /\ [][(pc = "after_loop" /\ pc' # pc /\ pipe_msg = <<>>) =>
          (pc' = "done" /\ ret' = Ok(loop.status, loop.signal))]_vars
  /\ (pc = "after_loop" ~> pc = "done")

C15_Witness ==
  /\ pc = "done"
  /\ execed
  /\ pipe_msg = <<>>
  /\ writers = {}
  /\ ret = Ok(Some(0), None)

\* the order C16 gives for the prelude
ClaimedOrder ==
  <<"prctl", "pipe_write", "redirect_io", "change_root", "set_alarm",
    "set_resource_limit", "setgid", "setuid", "traceme", "execvpe">>

Position(s) == CHOOSE k \in 1..Len(ClaimedOrder) : ClaimedOrder[k] = s

\* the prelude actions a child with this option carries out up to execvpe
Configured(s) ==
  CASE s = "change_root" -> option.chroot
    [] s = "traceme" -> option.ptrace.some
    [] OTHER -> TRUE

ReachedExecvpe == trail # <<>> /\ trail[Len(trail)] = "execvpe"

\* C16: the child carries out the prelude in the order parent-death signal,
\* pipe write end, redirection, jail (only with a chroot configured), alarm,
\* setrlimit, setgid, setuid, traceme (only with a filter configured),
\* execvpe: no action comes before an earlier one, and a child that reaches
\* execvpe has carried out every one before it, traceme last.
C16_PreludeOrder ==
  /\ \A i, j \in 1..Len(trail) : i < j => Position(trail[i]) < Position(trail[j])
  /\ \A i \in 1..Len(trail) : Configured(trail[i])
  /\ ReachedExecvpe => trail = SelectSeq(ClaimedOrder, Configured)
  /\ (ReachedExecvpe /\ option.ptrace.some) => trail[Len(trail) - 1] = "traceme"
  /\ execed => ReachedExecvpe

C16_Witness ==
  /\ execed
  /\ option.chroot
  /\ option.ptrace.some
  /\ trail = ClaimedOrder

\* C17 as stated: whenever the child reaches execvpe the alarm is armed, the
\* CPU, address-space, stack and file-size rlimits are in force, and the gid
\* and uid of the process are the configured ones.
C17_Constrained ==
  ReachedExecvpe =>
    /\ proc.alarm
    /\ proc.rlimits = {"RLIMIT_CPU", "RLIMIT_AS", "RLIMIT_STACK", "RLIMIT_FSIZE"}
    /\ proc.gid = option.gid
    /\ proc.uid = option.uid

(***************************************************************************)
(* Properties of the parent when the child stops for another signal        *)
(***************************************************************************)
\* C18 as stated: whatever signal the traced child stops with, run neither
\* panics nor aborts: it ends only with a Result or an error value.
C18_NeverAborts ==
  /\ ret.kind \in {"none", "Ok", "Err"}
  /\ ret.kind = "Err" => ret.error \in {"Nix", "Cgroup", "Fork", "Exec"}

\* C19 as stated: on a stop by a signal outside the timeout group, the fatal
\* group and SIGTRAP the loop does not resume the child and run returns an
\* error value, not a Result.
C19_InternalError ==
  [][(/\ pc = "waitpid"
      /\ cstate = "stopped"
      /\ stop.signal \notin TimeoutSignals \cup FatalSignals \cup {"SIGTRAP"}
      /\ pc' # pc) =>
       /\ ret'.kind = "Err"
       /\ request' = request
       /\ cstate' = "stopped"]_vars

(***************************************************************************)
(* Properties of CatBoxCgroup::new                                         *)
(***************************************************************************)
\* C20: when one of memory, cpu, cpuacct, pids is absent or the group cannot
\* be built, CatBoxCgroup::new returns the Cgroup error with force set and run
\* ends with it; without force it returns the struct, with the accounting
\* that is missing recorded as disabled, and run goes on to the loop.
C20_ForceOrFallback ==
  [][(/\ pc = "cgroup"
      /\ pc' # pc
      /\ (env.controllers # Controllers \/ env.fault = "build")) =>
       IF option.force
         THEN /\ pc' = "done"
              /\ ret' = Err("Cgroup")
              /\ cgroup' = NoCgroup
         ELSE /\ pc' = "waitpid"
              /\ ret' = NoReturn
              /\ cgroup'.some
              /\ cgroup'.val.cgroup = (env.fault # "build")
              /\ ("cpuacct" \notin env.controllers \/ env.fault = "build")
                   => ~cgroup'.val.enable_cpuacct
              /\ ("memory" \notin env.controllers \/ env.fault = "build")
                   => ~cgroup'.val.enable_memory]_vars

C20_Witness ==
  /\ ~option.force
  /\ env.controllers = {"cpu", "pids"}
  /\ cgroup = Some(CatBoxCgroup(TRUE, FALSE, FALSE))
  /\ ret.kind = "Ok"

(***************************************************************************)
(* Properties of the cgroup accountant                                     *)
(***************************************************************************)
\* the times of a CatBoxUsage are the cpuacct counters, in milliseconds
TimesFromCpuacct(u, k) ==
  /\ u.time = k.cpuacct.usage \div 1000000
  /\ u.time_user = k.cpuacct.usage_user \div 1000000
  /\ u.time_sys = k.cpuacct.usage_sys \div 1000000

\* a timeval as seconds*1000 + microseconds/1000
Millis(sec, usec) == sec * 1000 + usec \div 1000

\* the times of a CatBoxUsage are those of getrusage: the two timevals, and
\* their sum as a timeval, each converted to milliseconds
TimesFromRusage(u, k) ==
  LET ut == k.rusage.ru_utime
      st == k.rusage.ru_stime
      carry == (ut.tv_usec + st.tv_usec) \div 1000000
  IN /\ u.time = Millis(ut.tv_sec + st.tv_sec + carry,
                        ut.tv_usec + st.tv_usec - carry * 1000000)
     /\ u.time_user = Millis(ut.tv_sec, ut.tv_usec)
     /\ u.time_sys = Millis(st.tv_sec, st.tv_usec)

MemoryFromCgroup(u, k) ==
  /\ u.memory * 1024 <= k.memory.max_usage_in_bytes
       \/ u.memory * 1024 <= k.memory.memsw_max_usage_in_bytes
  /\ (u.memory + 1) * 1024 > k.memory.max_usage_in_bytes
  /\ (u.memory + 1) * 1024 > k.memory.memsw_max_usage_in_bytes

MemoryFromRusage(u, k) == u.memory = k.rusage.ru_maxrss

\* C21 as stated: when the group is built and adding the child to cpuacct or
\* memory fails, CatBoxCgroup::new returns Ok with that subsystem disabled.
C21_AddTaskNotFatal ==
  [][(/\ pc = "cgroup"
      /\ pc' # pc
      /\ \/ env.fault = "cpuacct_add_task" /\ "cpuacct" \in env.controllers
         \/ env.fault = "memory_add_task" /\ "memory" \in env.controllers) =>
       /\ pc' = "waitpid"
       /\ cgroup'.some
       /\ cgroup'.val.cgroup
       /\ env.fault = "cpuacct_add_task" => ~cgroup'.val.enable_cpuacct
       /\ env.fault = "memory_add_task" => ~cgroup'.val.enable_memory]_vars

\* C21, corrected: when the group is built and adding the child to cpuacct
\* or memory fails, CatBoxCgroup::new returns Ok with that subsystem disabled
\* if force is not set, and the Cgroup error if force is set; a failure to add
\* the child to cpu or pids changes nothing in what new returns.  When run
\* then returns Ok, the usage of a disabled subsystem is that of getrusage.
C21_AddTaskFallback ==
  [][/\ (/\ pc = "cgroup"
         /\ pc' # pc
         /\ \/ env.fault = "cpuacct_add_task" /\ "cpuacct" \in env.controllers
            \/ env.fault = "memory_add_task" /\ "memory" \in env.controllers) =>
          IF option.force
            THEN /\ pc' = "done"
                 /\ ret' = Err("Cgroup")
            ELSE /\ pc' = "waitpid"
                 /\ cgroup'.some
                 /\ cgroup'.val.cgroup
                 /\ env.fault = "cpuacct_add_task" => ~cgroup'.val.enable_cpuacct
                 /\ env.fault = "memory_add_task" => ~cgroup'.val.enable_memory
     /\ (/\ pc = "cgroup"
         /\ pc' # pc
         /\ env.fault \in {"cpu_add_task", "pids_add_task"}) =>
          LET clean == CatBoxCgroup_new(env.controllers, option.force, "none")
          IN IF clean.ok THEN cgroup' = Some(clean.val) /\ pc' = "waitpid"
                         ELSE ret' = Err("Cgroup") /\ pc' = "done"
     /\ (pc = "after_loop" /\ ret'.kind = "Ok") =>
          /\ usage'.some
          /\ ~cgroup.val.enable_cpuacct => TimesFromRusage(usage'.val, env.kernel)
          /\ ~cgroup.val.enable_memory => MemoryFromRusage(usage'.val, env.kernel)]_vars

\* the child could not be added to cpuacct, run went on without force and
\* reported the times of getrusage next to the memory of the cgroup
C21_Witness ==
  /\ ~option.force
  /\ env.fault = "cpuacct_add_task"
  /\ env.controllers = Controllers
  /\ ret.kind = "Ok"
  /\ usage.some
  /\ usage.val.time = 8
  /\ usage.val.memory = 4096

\* C22: whenever run has returned to its caller, Ok or Err, the cgroup
\* directory that was created for the invocation no longer exists.
C22_DirectoryRemoved ==
  (pc = "done" /\ ret.kind \in {"Ok", "Err"}) => ~cgdir

(***************************************************************************)
(* Properties of the jail                                                  *)
(***************************************************************************)
\* the target of a mount spec under the new root
TargetOf(mount_point) == Join(NewRoot, Tail(mount_point.dst))

\* the child carries out the chroot step of the prelude, with a root configured
ChangesRoot == step = "change_root" /\ step' # step /\ option.chroot

\* C23: after CatBoxOption::close on an option with a chroot root no live
\* mount remains at or under the root, whatever the mount specs.
C23_NoMountLeft ==
  (closed /\ option.chroot) =>
    \A i \in 1..Len(host.mtab) : ~Under(host.mtab[i], NewRoot)

\* the specs change_root skips, and the targets of those it does not skip
Skipped(mount_point) ==
  ~IsAbsolute(mount_point.dst) \/ mount_point.dst \notin env.dirs
KeptTargets ==
  LET kept == SelectSeq(option.mounts, LAMBDA mp : ~Skipped(mp))
  IN [i \in 1..Len(kept) |-> TargetOf(kept[i])]

C29_FailedJailNoRoot ==
  [][(/\ ChangesRoot
      /\ ~change_root(NewRoot, option.mounts, env, proc.uid = "root", host).ok) =>
       /\ step' = "set_alarm"
       /\ cstate' = "prelude"
       /\ ~proc'.jailed]_vars

\* the tracee is in the stop that ends its exec
ExecStop ==
  /\ execed
  /\ cstate = "stopped"
  /\ stop.signal = "SIGTRAP"
  /\ stop.regs.orig_rax = "execve"

\* C30: with a filter configured the program that was exec'ed runs nothing
\* while the parent is before or in CatBoxCgroup::new: it is in the SIGTRAP
\* stop of its exec, and it leaves that stop only by a ptrace request the
\* parent makes in the loop, after CatBoxCgroup::new returned Ok.
C30_StoppedUntilCgroup ==
  [][option.ptrace.some =>
       /\ (execed' /\ pc' \in {"start", "cgroup"}) => ExecStop'
       /\ (ExecStop /\ ~ExecStop') =>
            /\ pc = "waitpid"
            /\ cgroup.some
            /\ request' # NoRequest]_vars

\* the child finished its exec before the parent made the cgroup
C30_Witness ==
  /\ option.ptrace.some
  /\ pc = "cgroup"
  /\ ExecStop

(***************************************************************************)
(* Properties of the limits                                                *)
(***************************************************************************)
\* ceil(time_limit_ms / 1000) + 1, in seconds
CeilPlusOne(time_limit) ==
  IF time_limit.millis = 0 THEN Succ(time_limit.secs) ELSE Succ(Succ(time_limit.secs))

\* C26: for every time limit, the seconds given to alarm and the soft and
\* hard RLIMIT_CPU are all ceil(time_limit_ms / 1000) + 1.
C26_CeilPlusOne ==
  [][/\ (step = "set_alarm" /\ step' # step) =>
          proc'.alarm_secs = Some(CeilPlusOne(option.time_limit))
     /\ proc'.rlimit_cpu.some =>
          /\ proc'.rlimit_cpu.val.soft = CeilPlusOne(option.time_limit)
          /\ proc'.rlimit_cpu.val.hard = CeilPlusOne(option.time_limit)]_vars

(***************************************************************************)
(* Properties of the environment of the program                            *)
(***************************************************************************)
\* the keys the env list names
NamedKeys == {env_list[i][1] : i \in 1..Len(env_list)}

\* the environment of another parent differs from this one only in variables
\* that are not PATH and not named in the env list
DiffersElsewhere(other) ==
  \A n \in VarNames : (n = "PATH" \/ n \in NamedKeys) => other[n] = env.vars[n]

\* the strings execvpe gets under another parent environment
EnvironUnder(other) ==
  get_env(CommandEnv(parse_env_list(env_list, other).val, other))

\* C27: the environment handed to execvpe is the option's env pairs in order,
\* PATH of the parent first and then the configured pairs, and a parent whose
\* environment differs only in variables that are not PATH and not named in
\* the configuration gives the child the same environment.
C27_EnvFromOption ==
  proc.environ.some =>
    /\ Len(proc.environ.val) = Len(option.env)
    /\ \A i \in 1..Len(option.env) :
         proc.environ.val[i] = <<option.env[i][1], "=", option.env[i][2]>>
    /\ option.env[1] = <<"PATH", IF env.vars["PATH"].some THEN env.vars["PATH"].val
                                                          ELSE "">>
    /\ Len(option.env) = 1 + Len(env_list)
    /\ \A i \in 1..Len(env_list) : option.env[i + 1][1] = env_list[i][1]
    /\ \A other \in ParentVars :
         DiffersElsewhere(other) => EnvironUnder(other) = proc.environ.val

\* the parent has `test` set, the env list names LANG and HOME, and the
\* program gets PATH, LANG and HOME only
C27_Witness ==
  /\ env.vars["test"] = Some("value")
  /\ env.vars["LANG"] = Some("C")
  /\ env.vars["PATH"] = Some("/bin")
  /\ env_list = <<<<"LANG">>, <<"HOME", "/">>>>
  /\ proc.environ = Some(<<<<"PATH", "=", "/bin">>, <<"LANG", "=", "C">>,
                           <<"HOME", "=", "/">>>>)

(***************************************************************************)
(* Properties of CatBoxCgroup::usage                                       *)
(***************************************************************************)
\* C24 as stated: the times are those of cpuacct exactly when cpuacct is
\* enabled and otherwise those of getrusage; the memory is that of the cgroup
\* exactly when memory is enabled and otherwise ru_maxrss.
C24_SourceByFlag ==
  usage.some =>
    /\ IF cgroup.val.enable_cpuacct
         THEN TimesFromCpuacct(usage.val, env.kernel)
         ELSE TimesFromRusage(usage.val, env.kernel)
    /\ IF cgroup.val.enable_memory
         THEN MemoryFromCgroup(usage.val, env.kernel)
         ELSE MemoryFromRusage(usage.val, env.kernel)

\* C24, corrected: the times are those of cpuacct (nanoseconds / 1000000)
\* when cpuacct is enabled and its counters are read and reset without error,
\* and otherwise (disabled, or the read fails) those of getrusage as
\* seconds*1000 + microseconds/1000; the memory is max(memory, memsw) / 1024
\* when memory is enabled and read without error, and otherwise ru_maxrss; the
\* two choices are independent of each other.
C24_SourceByRead ==
  usage.some =>
    /\ IF cgroup.val.enable_cpuacct /\ env.kernel.fault # "cpuacct"
         THEN TimesFromCpuacct(usage.val, env.kernel)
         ELSE TimesFromRusage(usage.val, env.kernel)
    /\ IF cgroup.val.enable_memory /\ env.kernel.fault # "memory"
         THEN MemoryFromCgroup(usage.val, env.kernel)
         ELSE MemoryFromRusage(usage.val, env.kernel)

\* the times come from getrusage and the memory from the cgroup, with
\* values that tell the two sources apart
C24_Witness ==
  /\ usage.some
  /\ ~cgroup.val.enable_cpuacct
  /\ cgroup.val.enable_memory
  /\ env.kernel.fault = "none"
  /\ env.kernel.cpuacct.usage = 2000000
  /\ env.kernel.rusage.ru_utime = TimeVal(0, 999999)
  /\ env.kernel.rusage.ru_stime = TimeVal(1, 999999)
  /\ env.kernel.memory.max_usage_in_bytes = 4096
  /\ usage.val.time = 2999
  /\ usage.val.memory = 4

\* C25 as stated: the reported times satisfy time >= time_user + time_sys - 2.
C25_TimeCoversParts ==
  usage.some => usage.val.time + 2 >= usage.val.time_user + usage.val.time_sys

\* the times were taken from getrusage
TimesFellBack ==
  ~(cgroup.val.enable_cpuacct /\ cgroup.val.cgroup /\ env.kernel.fault # "cpuacct")

\* C25, corrected: on the getrusage fallback time >= time_user + time_sys for
\* all timevals; on the cpuacct path the three values are three counters of
\* the kernel, and time >= time_user + time_sys holds when the usage counter
\* is at least the sum of the user and the system counter.
C25_TimeCoversPartsOnFallback ==
  usage.some =>
    /\ TimesFellBack =>
         usage.val.time >= usage.val.time_user + usage.val.time_sys
    /\ (/\ ~TimesFellBack
        /\ env.kernel.cpuacct.usage >=
             env.kernel.cpuacct.usage_user + env.kernel.cpuacct.usage_sys) =>
         usage.val.time >= usage.val.time_user + usage.val.time_sys

\* on the fallback both timevals lose 999 microseconds to the conversion and
\* their sum carries into the seconds
C25_Witness ==
  /\ usage.some
  /\ TimesFellBack
  /\ env.kernel.rusage.ru_utime = TimeVal(0, 999999)
  /\ env.kernel.rusage.ru_stime = TimeVal(0, 999999)
  /\ usage.val.time = 1999
  /\ usage.val.time_user = 999
  /\ usage.val.time_sys = 999

(***************************************************************************)
(* Properties of the supervision loop, continued                           *)
(***************************************************************************)
\* the parent handles a SIGTRAP stop and makes its ptrace request
HandlesTrap == HandlesStop /\ stop.signal = "SIGTRAP"

\* the filter of this invocation lets the syscall of the stop pass
FilterAllows == ~filter.some \/ SyscallFilter_filter(filter.val, stop.regs).ret

\* C34: at a SIGTRAP stop the request is ptrace syscall without a signal when
\* no filter is configured or the filter allows the syscall; the only other
\* request is ptrace kill, for a syscall the filter denies (a denied syscall
\* whose registers could not be read is resumed with ptrace syscall too).
\* After a denial the parent makes no further ptrace request and the child is
\* dead: only its termination is left to report.
C34_TrapRequest ==
  /\ [][HandlesTrap =>
          /\ request' \in {Syscall, Kill}
          /\ FilterAllows => request' = Syscall
          /\ request' = Kill => denied' = Some(stop.regs.orig_rax)
          /\ denied' = denied \/ request' = Kill]_vars
  /\ [][denied.some => (request' = request /\ denied' = denied)]_vars
  /\ [](denied.some => (request = Kill /\ cstate \in {"zombie", "reaped"}))

\* a denied syscall: the parent asked for the kill, and waitpid reported the
\* termination by SIGKILL
C34_Witness ==
  /\ denied.some
  /\ request = Kill
  /\ loop_end = Signaled("SIGKILL")
  /\ cstate = "reaped"

\* C36: the forked child never returns from run() into the code of the caller.
C36_ChildNeverReturns == step # "returned"

\* C37: whenever run() has returned in the parent, with Ok or with an error,
\* the child that was forked has been reaped by waitpid.
C37_ReapedAtReturn == (pc = "done" /\ cstate # "none") => cstate = "reaped"

\* C38: the parent never goes back to waitpid with the child left in the stop
\* it was told about: handling a stop either resumes or kills the child or
\* ends run(); and once the child has terminated, the loop ends.
C38_NeverWaitsOnStopped ==
  /\ [][(HandlesStop /\ pc' = "waitpid") => cstate' # "stopped"]_vars
  /\ [](pc = "waitpid" /\ cstate = "stopped" => stop # NoStop)
  /\ ((pc = "waitpid" /\ cstate = "zombie") ~> pc # "waitpid")

\* a stop was forwarded with ptrace cont, the child terminated afterwards and
\* the loop ended on its wait status
C38_Witness ==
  /\ request.op = "cont"
  /\ LoopBroke
  /\ cstate = "reaped"
  /\ pc = "after_loop"

\* C35: run() leaves the filter stored in the option as it is: the loop
\* starts from a copy equal to the stored filter, the copy changes only where
\* the loop handles a SIGTRAP stop, and a later run() of the same option
\* starts from the full quotas again.
C35_OptionFilterKept ==
  /\ [][option' = option]_vars
  /\ [][(pc = "cgroup" /\ pc' = "waitpid") => filter' = option.ptrace]_vars
  /\ [][filter' # filter => (HandlesTrap \/ pc = "cgroup" \/ pc' = "start")]_vars

\* the first run ended with quota used up, the second run of the option is in
\* its loop with the quotas of the option
C35_Witness ==
  /\ Len(catbox.past) = 1
  /\ catbox.past[1].some
  /\ catbox.past[1] # option.ptrace
  /\ pc = "waitpid"
  /\ filter = option.ptrace
  /\ filter.val["execve"] = Allow(1)

(***************************************************************************)
(* Properties of CatBox::start                                             *)
(***************************************************************************)
\* start has returned or panicked
StartOver == catbox.ret # NoReturn

\* C40: start runs the commands one at a time in their order: the command at
\* hand is the one after those whose results are recorded, a result is
\* recorded only for a run that came back Ok and is appended to the ones
\* before, which never change; the first run that comes back with an error
\* ends start with that error and nothing is run afterwards.
C40_StartInOrder ==
  /\ [](/\ Len(catbox.results) = catbox.index - 1
        /\ catbox.index <= Len(catbox.options) => option = catbox.options[catbox.index]
        /\ catbox.ret.kind = "Ok" <=> catbox.index = Len(catbox.options) + 1
        /\ catbox.ret.kind = "Err" =>
             (catbox.ret = ret /\ catbox.index <= Len(catbox.options)))
  /\ [][catbox'.results # catbox.results =>
          /\ ret.kind = "Ok"
          /\ catbox'.results = Append(catbox.results, CatBoxResult(ret, usage.val))
          /\ catbox'.index = catbox.index + 1]_vars
  /\ [][(pc = "done" /\ ~StartOver /\ ret.kind = "Err" /\ catbox' # catbox) =>
          (catbox'.ret = ret /\ catbox'.results = catbox.results)]_vars
  /\ [][StartOver => (catbox' = catbox /\ pc' = pc /\ ret' = ret)]_vars

\* the first command exited with 42 and its result is recorded; the second
\* came back with the Cgroup error, which is what start returned
C40_Witness ==
  /\ Len(catbox.options) = 2
  /\ Len(catbox.results) = 1
  /\ catbox.results[1].status = Some(42)
  /\ catbox.ret = Err("Cgroup")

(***************************************************************************)
(* The two engines                                                         *)
(***************************************************************************)
\* the stops the two engines are compared on
ComparedSignals ==
  TimeoutSignals \cup {"SIGBUS", "SIGFPE", "SIGILL", "SIGSEGV", "SIGSYS", "SIGXFSZ"}

\* the program was stopped by sig, for which it has no handler: the pair the
\* loop of run() ended with is the pair the older engine breaks with there
AgreeOnSignal ==
  (traced /\ LoopBroke /\ hit.some /\ ~denied.some /\ hit.val \in ComparedSignals) =>
    loop = sandbox_Stopped(filter, Stop(hit.val, NoRegs, FALSE)).pair

\* the filter denied a syscall: the same
AgreeOnDenial ==
  (traced /\ LoopBroke /\ denied.some) =>
    loop = sandbox_Stopped(filter, Stop("SIGTRAP", [orig_rax |-> denied.val, rdi |-> 0],
                                        FALSE)).pair

\* C39: for a stop by one of the compared signals with no handler, and for
\* a syscall the filter denies, the loop of run() ends with the (status,
\* signal) pair the loop of the older engine ends with.
C39_EnginesAgree == AgreeOnSignal /\ AgreeOnDenial

\* C39, amended: the two engines end their loops with the same pair for a
\* stop by one of the compared signals with no handler; for a syscall the
\* filter denies both report no status, the older engine with the signal of
\* the stop, SIGTRAP, and run() with SIGKILL.
C39_AgreeOnSignalsOnly ==
  /\ AgreeOnSignal
  /\ (traced /\ LoopBroke /\ denied.some) =>
       /\ loop = [status |-> None, signal |-> Some("SIGKILL")]
       /\ sandbox_Stopped(filter, Stop("SIGTRAP", [orig_rax |-> denied.val, rdi |-> 0],
                                       FALSE)).pair
            = [status |-> None, signal |-> Some("SIGTRAP")]

\* the traced program ran into its cpu limit with no handler for SIGXCPU and
\* the loop ended with the pair the older engine breaks with
C39_Witness ==
  /\ traced
  /\ hit = Some("SIGXCPU")
  /\ ~denied.some
  /\ loop = sandbox_Stopped(filter, Stop("SIGXCPU", NoRegs, FALSE)).pair
  /\ loop_end = Signaled("SIGXCPU")

(***************************************************************************)
(* Properties of concurrent invocations                                    *)
(***************************************************************************)
\* run() has been entered and has not returned
Alive(i) == invocations[i].at \in {"forked", "loop", "after_loop"}

\* C31: two invocations that are alive at the same time under the same cgroup
\* name never use the same cgroup path.
C31_PathsDiffer ==
  \A i, j \in Invocation :
    (i # j /\ Alive(i) /\ Alive(j) /\ invocations[i].cgroup.some /\ invocations[j].cgroup.some)
      => invocations[i].cgroup # invocations[j].cgroup

(***************************************************************************)
(* Properties of the pipe                                                  *)
(***************************************************************************)
\* a process has left run(): by a return or by an unwinding panic
LeftRun(p) == fds[p].at \in {"returned", "panicked"}

\* C32: in every process no fd of the pipe is closed twice, and no fd of the
\* pipe is still open in a process once run() has returned there or the end it
\* held has been dropped
C32_ClosedOnce ==
  \A p \in Procs : \A fd \in PipeFds :
    /\ fds[p].closes[fd] <= 1
    /\ (LeftRun(p) \/ fds[p].holds = "dropped") => fd \notin fds[p].open

\* the text holds no NUL byte
NulFree(text) == \A i \in 1..Len(text) : text[i] # 0

\* one write of the text, then one read, have been made
WrittenAndRead == wire.at = "done"

\* what holds of the reader's result for every text: it is no error, it holds
\* no NUL, and bytes that are not valid UTF-8 give the empty text
ReaderResult ==
  /\ wire.got.kind = "Ok"
  /\ NulFree(wire.got.text)
  /\ ~Utf8Valid(TakeWhileNonZero(wire.got.buf)) => wire.got.text = <<>>

\* C33 as stated: after one write of a text without NUL and one read, the
\* reader has exactly that text, whatever its length; the result holds no NUL,
\* and invalid UTF-8 gives the empty text
C33_RoundTrip ==
  WrittenAndRead =>
    /\ NulFree(wire.text) => wire.got.text = wire.text
    /\ ReaderResult

\* C33: after one write of a text without NUL of at most 128 bytes and one
\* read, the reader has exactly that text; for every text the result is no
\* error, holds no NUL, and is empty where the bytes read are not valid UTF-8
C33_RoundTripInBuffer ==
  WrittenAndRead =>
    /\ (NulFree(wire.text) /\ Len(wire.text) <= BufLen) => wire.got.text = wire.text
    /\ ReaderResult

\* a text of two-byte characters that fills the buffer has come through
C33_Witness ==
  /\ WrittenAndRead
  /\ Len(wire.text) = BufLen
  /\ wire.text[1] = 195
  /\ wire.got.text = wire.text

====
